---- MODULE Spec2Model ----
(***************************************************************************)
(* Terminal text animators of havokzero/Test1: the delta Renderer of       *)
(* Main4/Main5/Main6, the character-cell scramble of main2 and             *)
(* main3..Main6, and the alphabet builder.                                 *)
(*                                                                         *)
(* A Python str is a sequence of one-symbol strings; an ANSI escape        *)
(* sequence is one element of that sequence (it occupies no screen cell).  *)
(***************************************************************************)
EXTENDS Integers, Sequences, FiniteSets, TLC

VARIABLES
    prog,       \* which program file runs: "main", "main2", "main3", "Main4" .. "Main6", "main7"
    pc,         \* position of the control flow
    prev,       \* Renderer.prev: the padded rows of the last drawn frame
    height,     \* Renderer.height
    use_alt,    \* Renderer.use_alt
    screen,     \* the terminal: screen[row][col] is the visible symbol of a cell
    cursorOn,   \* the terminal shows its cursor (SHOW / HIDE)
    altOn,      \* the terminal is in the alternate screen buffer (ALT_ON / ALT_OFF)
    frame,      \* the argument of the last Renderer.draw call, NoFrame before the first
    oldPrev,    \* Renderer.prev when the last draw call was entered
    writes,     \* the terminal writes of the last draw call, in order
    text,       \* the text to animate (target of main2)
    pool_key,   \* the pool name given to build_alphabet
    pal_name,   \* the theme whose palette main() passes to the animation as pal
    rainbow_active, \* the rainbow flag main() passes to the animation
    alphabet,   \* the result of build_alphabet, <<>> before the call
    stagger,    \* seconds between line starts, in clock units
    now,        \* the last reading of time.perf_counter(), start being 0
    states,     \* main3..Main6: per line [tgt, disp, locked]
    tries,      \* Main5/Main6: per line, per cell, the attempts made
    bias,       \* Main5/Main6: bias of the last attempt, in hundredths; 0 before it
    hue,        \* hue % len(RAINBOW), counted while rainbow_active (not read otherwise)
    all_done,   \* main3..Main6: the flag of the current tick
    li,         \* main3..Main6: the line the update loop of the tick is at (from 0)
    ascii_rows, \* main3..Main6: the frame built by the last tick
    chars,      \* main2: list(target)
    locked,     \* main2: per symbol, locked or not
    display,    \* main2: per symbol, the symbol shown
    indices,    \* main2: the positions (from 0) still to resolve
    i_ptr,      \* main2: the scan cursor into indices (from 0)
    mode,       \* "scramble" or "typewriter"
    shown,      \* typewriter: per line, the prefix shown
    cur_r,      \* typewriter: r, the line being revealed (from 0)
    cur_c,      \* typewriter: c, the number of symbols to show next
    type_draws, \* typewriter: the frames drawn by the loop so far
    entered,    \* Renderer.begin() has been entered in this run
    ends,       \* how many executions of Renderer.end() have completed in this run
    intAt,      \* where the run was when KeyboardInterrupt arrived, "none" if it has not
    raising,    \* the KeyboardInterrupt is propagating through the finally clause
    cfg,        \* main, main7: the Config fields the animation reads
    base,       \* main, main7: the target block, a list of rows
    t_norm,     \* main, main7: t, the normalised time of the tick, in thousandths
    blk,        \* main, main7: the frame the mode function returned last
    comp,       \* main, main7: frames[-1], the last frame appended to frames
    drawn       \* main, main7: the last frame printed to the terminal

rvars == <<prev, height, use_alt, screen, cursorOn, altOn, frame, oldPrev, writes>>

avars == <<text, pool_key, pal_name, rainbow_active, alphabet>>

svars == <<stagger, now, states, tries, bias, hue, all_done, li, ascii_rows>>

lvars == <<chars, locked, display, indices, i_ptr>>

tvars == <<shown, cur_r, cur_c, type_draws>>

mvars == <<mode, entered, ends, intAt, raising>>

bvars == <<cfg, base, t_norm, blk, comp, drawn>>

vars == <<prog, pc, rvars, avars, svars, lvars, tvars, mvars, bvars>>

\* no block animation of main or main7 is in the state
NoBlock ==
    /\ cfg = <<>>
    /\ base = <<>>
    /\ t_norm = 0
    /\ blk = <<>>
    /\ comp = <<>>
    /\ drawn = <<>>

\* the theme main() starts with ("matrix" in main2, "cyberpunk" in the
\* others), with the rainbow toggled off
PlainLook ==
    /\ pal_name = (IF prog = "main2" THEN "matrix" ELSE "cyberpunk")
    /\ rainbow_active = FALSE

\* the variables of the animations, where no animation runs
NoAnimation ==
    /\ stagger = 0
    /\ now = 0
    /\ states = <<>>
    /\ tries = <<>>
    /\ bias = 0
    /\ hue = 0
    /\ all_done = FALSE
    /\ li = 0
    /\ ascii_rows = <<>>
    /\ chars = <<>>
    /\ locked = <<>>
    /\ display = <<>>
    /\ indices = <<>>
    /\ i_ptr = 0
    /\ mode = "scramble"
    /\ shown = <<>>
    /\ cur_r = 0
    /\ cur_c = 0
    /\ type_draws = 0
    /\ entered = FALSE
    /\ ends = 0
    /\ intAt = "none"
    /\ raising = FALSE

-----------------------------------------------------------------------------
(* Bounds of the model *)

MaxRows == 2
MaxText == 2

-----------------------------------------------------------------------------
(* ANSI helpers *)

RESET == "ESC[0m"
COLOUR == "ESC[38;2;255;255;255m"
SCRAMBLE == "ESC[38;2;255;0;180m"
ACTIVE == "ESC[38;2;0;255;255m"

\* the "matrix" palette of main2
Matrix == [scramble |-> "ESC[32m", active |-> "ESC[93m", locked |-> "ESC[92m"]

\* the "cyberpunk" palette of main3..Main6
Cyberpunk == [scramble |-> SCRAMBLE, active |-> ACTIVE, locked |-> COLOUR]

\* the "neon" palette of main3..Main6
Neon == [scramble |-> "ESC[38;2;255;0;200m", active |-> "ESC[38;2;0;220;255m", locked |-> COLOUR]

\* PALETTES.get(theme, PALETTES["cyberpunk"]), with "matrix" as main2 has it
PALETTES(theme) ==
    CASE theme = "matrix" -> Matrix
      [] theme = "neon" -> Neon
      [] OTHER -> Cyberpunk

RAINBOW ==
    << "ESC[38;2;255;80;80m", "ESC[38;2;255;180;60m", "ESC[38;2;120;220;80m",
       "ESC[38;2;60;200;220m", "ESC[38;2;80;120;255m", "ESC[38;2;200;100;255m" >>

\* the sequences the pattern \x1b\[[0-9;]*m of strip_ansi matches
SGR ==
    {RESET, COLOUR, SCRAMBLE, ACTIVE, Matrix.scramble, Matrix.active, Matrix.locked,
     Neon.scramble, Neon.active} \cup {RAINBOW[k] : k \in 1..Len(RAINBOW)}

Spaces(n) == [i \in 1..n |-> " "]

MaxOf(S) == CHOOSE m \in S : \A x \in S : x <= m

strip_ansi(s) == SelectSeq(s, LAMBDA c : c \notin SGR)

-----------------------------------------------------------------------------
(* Renderer.draw *)

\* width = max(widths) if widths else 0
FrameWidth(lines) ==
    IF lines = <<>> THEN 0
    ELSE MaxOf({Len(strip_ansi(lines[i])) : i \in 1..Len(lines)})

PaddedRawLen(lines) ==
    [i \in 1..Len(lines) |-> lines[i] \o Spaces(FrameWidth(lines) - Len(lines[i]))]

\* padded = [l + " " * (width - len(strip_ansi(l))) for l in lines]
Padded(lines) ==
    [i \in 1..Len(lines) |->
        lines[i] \o Spaces(FrameWidth(lines) - Len(strip_ansi(lines[i])))]

MaxRowsOf(prv, padded) == IF Len(prv) > Len(padded) THEN Len(prv) ELSE Len(padded)

NewLine(padded, row) == IF row <= Len(padded) THEN padded[row] ELSE <<>>

RowChangedAlways(prv, padded, row) == TRUE

\* a comparison of what the two rows show, colour escapes left out
RowChangedVisible(prv, padded, row) ==
    \/ row > Len(prv)
    \/ strip_ansi(NewLine(padded, row)) # strip_ansi(prv[row])

\* new_line != old_line, old_line being None for a row prev does not have
RowChanged(prv, padded, row) ==
    \/ row > Len(prv)
    \/ NewLine(padded, row) # prv[row]

RowWritesAll(prv, padded) ==
    [row \in 1..MaxRowsOf(prv, padded) |->
        [row |-> row, kind |-> "row", text |-> NewLine(padded, row) \o <<RESET>>]]

\* the first loop: goto(row, 1) + new_line + RESET for every changed row
RowWrites(prv, padded) ==
    SelectSeq(RowWritesAll(prv, padded), LAMBDA w : RowChanged(prv, padded, w.row))

BlankWritesNone(prv, padded) == <<>>

\* the second loop: goto(row, 1) + " " * len(strip_ansi(prev[row-1])) for the leftover rows
BlankWrites(prv, padded) ==
    IF Len(padded) < Len(prv)
    THEN [k \in 1..(Len(prv) - Len(padded)) |->
            [row |-> Len(padded) + k, kind |-> "blank",
             text |-> Spaces(Len(strip_ansi(prv[Len(padded) + k])))]]
    ELSE <<>>

\* Main5/Main6 return at once when lines == self.prev; Main4 has no such test
Bails(p, prv, lines) == p \in {"Main5", "Main6"} /\ lines = prv

\* the body of draw past the test: the two write loops, then prev and height
Redraw(prv, padded) ==
    [prev |-> padded,
     height |-> MaxRowsOf(prv, padded),
     writes |-> RowWrites(prv, padded) \o BlankWrites(prv, padded)]

\* the state and the writes draw(lines) leaves behind
DrawResult(p, prv, h, lines) ==
    IF Bails(p, prv, lines)
    THEN [prev |-> prv, height |-> h, writes |-> <<>>]
    ELSE Redraw(prv, CHOOSE padded \in {Padded(lines)} : TRUE)

-----------------------------------------------------------------------------
(* The terminal *)

\* a write of text at goto(row, 1): its visible symbols replace the cells from column 1 on
ApplyWrite(scr, w) ==
    LET vis == strip_ansi(w.text) IN
    IF w.row \in DOMAIN scr
    THEN [scr EXCEPT ![w.row] =
            [c \in 1..Len(@) |-> IF c <= Len(vis) THEN vis[c] ELSE @[c]]]
    ELSE scr

RECURSIVE ApplyWrites(_, _)
ApplyWrites(scr, ws) ==
    IF ws = <<>> THEN scr ELSE ApplyWrites(ApplyWrite(scr, Head(ws)), Tail(ws))

BlankScreen(rows, cols) == [r \in 1..rows |-> Spaces(cols)]

-----------------------------------------------------------------------------
(* The Renderer driven directly: begin(), any frames to draw(), end() *)

NoFrame == <<<<"(no draw yet)">>>>

\* rows given to draw(): a spacer row, a plain row and a narrower coloured row
LineSamples ==
    { <<>>, <<"a", "b">>, <<COLOUR, "a", RESET>> }

Frames == UNION { [1..n -> LineSamples] : n \in 0..MaxRows }

SampleCols == MaxOf({Len(strip_ansi(l)) : l \in LineSamples})

\* the Renderer class of Main5 is, line for line, that of Main6
RendererProgs == {"Main4", "Main6"}

\* Renderer(use_alt_screen), on a terminal showing an empty screen
InitRenderer ==
    /\ NoBlock
    /\ prog \in RendererProgs
    /\ pc = "new"
    /\ prev = <<>>
    /\ height = 0
    /\ use_alt = TRUE
    /\ screen = BlankScreen(MaxRows, SampleCols)
    /\ cursorOn = TRUE
    /\ altOn = FALSE
    /\ frame = NoFrame
    /\ oldPrev = <<>>
    /\ writes = <<>>
    /\ text = <<>>
    /\ pool_key = "alnum+punct"
    /\ PlainLook
    /\ alphabet = <<>>
    /\ NoAnimation

\* begin(): ALT_ON when use_alt, then HIDE + goto(1,1)
RBegin ==
    /\ pc = "new"
    /\ pc' = "begun"
    /\ altOn' = (use_alt \/ altOn)
    /\ cursorOn' = FALSE
    /\ UNCHANGED <<prog, bvars, prev, height, use_alt, screen, frame, oldPrev, writes>>
    /\ UNCHANGED <<avars, svars, lvars, tvars, mvars>>

\* a call renderer.draw(lines) and its effect on the terminal
DrawCall(lines) ==
    /\ \E res \in {DrawResult(prog, prev, height, lines)} :
        /\ prev' = res.prev
        /\ height' = res.height
        /\ writes' = res.writes
    /\ screen' = ApplyWrites(screen, writes')
    /\ frame' = lines
    /\ oldPrev' = prev

\* draw(lines)
RDraw(lines) ==
    /\ pc = "begun"
    /\ DrawCall(lines)
    /\ UNCHANGED <<prog, bvars, pc, use_alt, cursorOn, altOn>>
    /\ UNCHANGED <<avars, svars, lvars, tvars, mvars>>

\* end(): goto(height+1, 1) + SHOW, then ALT_OFF when use_alt
REnd ==
    /\ pc = "begun"
    /\ pc' = "ended"
    /\ cursorOn' = TRUE
    /\ altOn' = (IF use_alt THEN FALSE ELSE altOn)
    /\ UNCHANGED <<prog, bvars, prev, height, use_alt, screen, frame, oldPrev, writes>>
    /\ UNCHANGED <<avars, svars, lvars, tvars, mvars>>

NextRenderer ==
    \/ RBegin
    \/ \E lines \in Frames : RDraw(lines)
    \/ REnd

SpecRenderer == InitRenderer /\ [][NextRenderer]_vars

-----------------------------------------------------------------------------
(* Properties of Renderer.draw, checked under SpecRenderer *)

\* a draw call has returned
Drawn == frame # NoFrame

\* what a terminal row of n cells shows when its text is s and the rest is blank
RowShowing(s, n) == [c \in 1..n |-> IF c <= Len(s) THEN s[c] ELSE " "]

\* the sequences f and g have the same length and differ in element k alone
DiffersOnlyAt(f, g, k) ==
    /\ Len(f) = Len(g)
    /\ k \in 1..Len(f)
    /\ f[k] # g[k]
    /\ \A i \in 1..Len(f) : i # k => f[i] = g[i]

\* C1 (as claimed): when draw(Fn) has returned the terminal shows exactly Fn:
\* row i <= len(Fn) shows Fn[i] followed by blanks only, every row below is
\* blank, and self.prev is what the terminal shows.
C1_TerminalShowsFrame ==
    Drawn =>
        /\ \A r \in DOMAIN screen :
              screen[r] = IF r <= Len(frame)
                          THEN RowShowing(strip_ansi(frame[r]), Len(screen[r]))
                          ELSE Spaces(Len(screen[r]))
        /\ Len(prev) = Len(frame)
        /\ \A r \in 1..Len(prev) :
              screen[r] = RowShowing(strip_ansi(prev[r]), Len(screen[r]))

\* C2 (as claimed): draw(F1) then draw(F2), F2 having as many rows as F1 and
\* differing from it in row k alone, writes row k and nothing else in the
\* second call.
C2_OneRewriteForOneChangedRow ==
    [][\A k \in 1..MaxRows + 1 :
          (Drawn /\ DiffersOnlyAt(frame, frame', k))
              => (Len(writes') = 1 /\ writes'[1].row = k)]_vars

\* C2 (amended): when the rows of F1 and F2, each right-padded to the width of
\* its own frame, are equally many and differ in row k alone, the second draw
\* writes row k, whole, and nothing else.
C2_OneRewriteForOneChangedPaddedRow ==
    \A k \in 1..MaxRows + 1 :
        (Drawn /\ DiffersOnlyAt(oldPrev, Padded(frame), k))
            => writes = << [row |-> k, kind |-> "row",
                            text |-> Padded(frame)[k] \o <<RESET>>] >>

\* C2 witness: a draw of a two-row frame whose second padded row alone changed
C2_Witness ==
    /\ Drawn
    /\ Len(frame) = 2
    /\ DiffersOnlyAt(oldPrev, Padded(frame), 2)
    /\ Len(writes) = 1

\* C3 (as claimed): a draw of the frame the preceding draw was given writes
\* nothing and leaves self.prev and self.height as they were.
C3_IdenticalFrameIsNoOp ==
    [][(Drawn /\ pc = "begun" /\ pc' = "begun" /\ frame' = frame)
          => (writes' = <<>> /\ prev' = prev /\ height' = height)]_vars

\* C4: when the drawn frame has fewer rows than the previous one, every row
\* the previous frame had and the new one lacks is written over with spaces
\* across its previous width, and shows blanks there afterwards.
C4_AbsentRowsBlanked ==
    (Drawn /\ Len(frame) < Len(oldPrev)) =>
        \A r \in (Len(frame) + 1)..Len(oldPrev) :
            /\ \E i \in 1..Len(writes) :
                  writes[i] = [row |-> r, kind |-> "blank",
                               text |-> Spaces(Len(strip_ansi(oldPrev[r])))]
            /\ \A c \in 1..Len(strip_ansi(oldPrev[r])) : screen[r][c] = " "

\* C4 witness: a frame of two rows of visible text was followed by a shorter one
C4_Witness ==
    /\ Drawn
    /\ Len(oldPrev) = 2
    /\ Len(frame) < 2
    /\ \A r \in 1..2 : Len(strip_ansi(oldPrev[r])) > 0

\* C5: after a draw call all rows of self.prev have one colour-stripped
\* length, the greatest colour-stripped line width of the frame just drawn.
C5_PaddingInvariant ==
    Drawn => \A r \in 1..Len(prev) : Len(strip_ansi(prev[r])) = FrameWidth(frame)

\* C5 witness: a drawn frame with a coloured row narrower than another row
C5_Witness ==
    /\ Drawn
    /\ \E r \in 1..Len(frame) :
          /\ COLOUR \in {frame[r][c] : c \in 1..Len(frame[r])}
          /\ Len(strip_ansi(frame[r])) < FrameWidth(frame)

\* the row of goto(self.height + 1, 1), where end() leaves the cursor
EndRow == height + 1

\* C23: after end() the cursor is in the row right below the last row of the
\* frame drawn last, it is visible, and the alternate screen that begin()
\* entered has been left
C23_EndBelowLastFrame ==
    (pc = "ended" /\ Drawn) =>
        /\ EndRow = Len(frame) + 1
        /\ cursorOn
        /\ ~altOn

-----------------------------------------------------------------------------
(* A Renderer object used for a second run: begin() after end() *)

\* begin() on the object of a finished run: ALT_ON (a cleared alternate
\* screen) when use_alt, then HIDE + goto(1,1); prev and height are not
\* assigned
RBeginAgain ==
    /\ pc = "ended"
    /\ pc' = "begun again"
    /\ altOn' = (use_alt \/ altOn)
    /\ cursorOn' = FALSE
    /\ screen' = IF use_alt THEN BlankScreen(MaxRows, SampleCols) ELSE screen
    /\ UNCHANGED <<prog, bvars, prev, height, use_alt, frame, oldPrev, writes>>
    /\ UNCHANGED <<avars, svars, lvars, tvars, mvars>>

\* the first draw(lines) of the second run
RDrawAgain(lines) ==
    /\ pc = "begun again"
    /\ pc' = "drawn again"
    /\ DrawCall(lines)
    /\ UNCHANGED <<prog, bvars, use_alt, cursorOn, altOn>>
    /\ UNCHANGED <<avars, svars, lvars, tvars, mvars>>

NextRendererReuse ==
    \/ NextRenderer
    \/ RBeginAgain
    \/ \E lines \in Frames : RDrawAgain(lines)

SpecRendererReuse == InitRenderer /\ [][NextRendererReuse]_vars

\* C24: begin() starts from an empty prev, so the first draw of a run writes
\* every row of its frame, also in the second run of a Renderer object
C24_RunStartsFromEmptyPrev ==
    /\ pc \in {"begun again", "ended"} => prev = <<>>
    /\ pc = "drawn again" =>
          \A r \in 1..Len(frame) :
              \E i \in 1..Len(writes) : writes[i].row = r /\ writes[i].kind = "row"

-----------------------------------------------------------------------------
(* Renderer.draw write by write, with KeyboardInterrupt raised inside it *)

\* the writes draw(lines) issues, in order, when it does not return at once
PendingWrites(prv, lines) == Redraw(prv, CHOOSE padded \in {Padded(lines)} : TRUE).writes

\* draw(lines) is called: Main5/Main6 return at once when lines == self.prev,
\* otherwise padded is built and the first loop is about to start
DrawEnter(lines) ==
    /\ pc = "begun"
    /\ pc' = IF Bails(prog, prev, lines) THEN "begun" ELSE "drawing"
    /\ frame' = lines
    /\ oldPrev' = prev
    /\ writes' = <<>>
    /\ UNCHANGED <<prog, bvars, prev, height, screen, use_alt, cursorOn, altOn>>
    /\ UNCHANGED <<avars, svars, lvars, tvars, mvars>>

\* the next sys.stdout.write of the two loops
DrawWrite ==
    /\ pc = "drawing"
    /\ \E full \in {PendingWrites(prev, frame)} :
        /\ Len(writes) < Len(full)
        /\ writes' = Append(writes, full[Len(writes) + 1])
        /\ screen' = ApplyWrite(screen, full[Len(writes) + 1])
    /\ UNCHANGED <<prog, bvars, pc, prev, height, frame, oldPrev, use_alt, cursorOn, altOn>>
    /\ UNCHANGED <<avars, svars, lvars, tvars, mvars>>

\* both loops are over: self.prev = padded; self.height = max_rows; flush
DrawFinish ==
    /\ pc = "drawing"
    /\ \E res \in {Redraw(prev, CHOOSE padded \in {Padded(frame)} : TRUE)} :
        /\ writes = res.writes
        /\ prev' = res.prev
        /\ height' = res.height
    /\ pc' = "begun"
    /\ UNCHANGED <<prog, bvars, screen, frame, oldPrev, writes, use_alt, cursorOn, altOn>>
    /\ UNCHANGED <<avars, svars, lvars, tvars, mvars>>

\* KeyboardInterrupt is raised inside draw: control leaves it with the
\* writes issued so far and without the assignments at its end
DrawInterrupt ==
    /\ pc = "drawing"
    /\ pc' = "begun"
    /\ intAt' = "draw"
    /\ UNCHANGED <<prog, bvars, rvars, avars, svars, lvars, tvars, mode, entered, ends, raising>>

NextDrawSteps ==
    \/ RBegin
    \/ \E lines \in Frames : DrawEnter(lines)
    \/ DrawWrite
    \/ DrawFinish
    \/ DrawInterrupt
    \/ REnd

SpecDrawSteps == InitRenderer /\ [][NextDrawSteps]_vars

\* self.prev describes what the terminal shows: row r shows prev[r] and
\* blanks after it, and the rows prev does not have are blank
InSync ==
    \A r \in DOMAIN screen :
        screen[r] = IF r <= Len(prev)
                    THEN RowShowing(strip_ansi(prev[r]), Len(screen[r]))
                    ELSE Spaces(Len(screen[r]))

\* C25: at no point inside draw, where a KeyboardInterrupt can make control
\* leave it, does self.prev stop describing the terminal: a step that leads
\* to such a point from a state in which prev describes the terminal leads
\* to a state in which it still does
C25_PrevInSyncInsideDraw ==
    [][(InSync /\ pc' = "drawing") => InSync']_vars

-----------------------------------------------------------------------------
(* Symbols, pools and the alphabet builder *)

NL == "\n"

\* the symbols of the model, with their code points: two letters in both
\* cases, a digit, two punctuation marks, the space and the line break
Ord == [c \in {NL, " ", "#", "-", "1", "A", "B", "a", "b"} |->
          CASE c = NL -> 10 [] c = " " -> 32 [] c = "#" -> 35 [] c = "-" -> 45
            [] c = "1" -> 49 [] c = "A" -> 65 [] c = "B" -> 66
            [] c = "a" -> 97 [] c = "b" -> 98]

Symbols == DOMAIN Ord

\* str.upper(), symbol by symbol
UpperOf(c) == CASE c = "a" -> "A" [] c = "b" -> "B" [] OTHER -> c

upper(s) == [i \in 1..Len(s) |-> UpperOf(s[i])]

\* s.replace("\n", "")
WithoutNL(s) == SelectSeq(s, LAMBDA c : c # NL)

SetOf(s) == {s[i] : i \in 1..Len(s)}

\* "".join(sorted(S)): the symbols of S by ascending code point
RECURSIVE Sorted(_)
Sorted(S) ==
    IF S = {} THEN <<>>
    ELSE LET m == CHOOSE x \in S : \A y \in S : Ord[x] <= Ord[y]
         IN <<m>> \o Sorted(S \ {m})

\* the string module's classes, restricted to the symbols of the model
ascii_uppercase == <<"A", "B">>
ascii_letters == <<"a", "b", "A", "B">>
digits == <<"1">>
punctuation == <<"#", "-">>

\* POOLS of main2
Pools2 ==
    [letters |-> ascii_letters \o <<" ">>,
     lettersdigits |-> ascii_letters \o digits \o <<" ">>,
     alnumpunct |-> ascii_letters \o digits \o punctuation \o <<" ">>,
     printable |-> digits \o ascii_letters \o punctuation \o <<" ", NL>>]

\* POOLS of main3, Main4, Main5, Main6 (" .,:!?-" holds "-" but not "#")
Pools3 ==
    [letters |-> ascii_uppercase \o <<" ">>,
     lettersdigits |-> ascii_uppercase \o digits \o <<" ">>,
     alnumpunct |-> ascii_uppercase \o digits \o <<" ", "-">>,
     printable |-> ascii_uppercase \o digits \o <<" ", "-">>]

PoolKeys == {"letters", "letters+digits", "alnum+punct", "printable", "no such pool"}

\* POOLS.get(pool_key, POOLS["alnum+punct"])
PoolOf(p, key) ==
    LET pools == IF p = "main2" THEN Pools2 ELSE Pools3 IN
    CASE key = "letters" -> pools.letters
      [] key = "letters+digits" -> pools.lettersdigits
      [] key = "printable" -> pools.printable
      [] OTHER -> pools.alnumpunct

\* an alphabet made of the pool alone
ExtraDropped(p, target) == <<>>

\* extra: the target without its line breaks, upper-cased from main3 on
ExtraOf(p, target) ==
    IF p = "main2" THEN WithoutNL(target) ELSE WithoutNL(upper(target))

\* base + extra as it stands, neither deduplicated nor sorted
build_alphabet_joined(p, target, key) == PoolOf(p, key) \o ExtraOf(p, target)

\* "".join(sorted(set(base + extra)))
build_alphabet(p, target, key) ==
    Sorted(SetOf(PoolOf(p, key) \o ExtraOf(p, target)))

\* text.split("\n")
RECURSIVE split(_)
split(s) ==
    IF \A i \in 1..Len(s) : s[i] # NL THEN <<s>>
    ELSE LET k == CHOOSE i \in 1..Len(s) : s[i] = NL /\ \A j \in 1..(i - 1) : s[j] # NL
         IN <<SubSeq(s, 1, k - 1)>> \o split(SubSeq(s, k + 1, Len(s)))

\* the targets of the cells the animation has to resolve: main2 takes the
\* symbols of the target other than line breaks (indices), main3..Main6 take
\* list(ln.upper()) for every line of the text
CellTargets(p, t) ==
    IF p = "main2" THEN {t[i] : i \in {j \in 1..Len(t) : t[j] # NL}}
    ELSE UNION { SetOf(upper(split(t)[l])) : l \in 1..Len(split(t)) }

-----------------------------------------------------------------------------
(* build_alphabet applied to any text and pool key *)

AllProgs == {"main2", "main3", "Main4", "Main5", "Main6"}

Texts == UNION { [1..n -> Symbols] : n \in 0..MaxText }

InitAlphabet ==
    /\ NoBlock
    /\ prog \in AllProgs
    /\ pc = "call"
    /\ text \in Texts
    /\ pool_key \in PoolKeys
    /\ PlainLook
    /\ alphabet = <<>>
    /\ prev = <<>>
    /\ height = 0
    /\ use_alt = TRUE
    /\ screen = <<>>
    /\ cursorOn = TRUE
    /\ altOn = FALSE
    /\ frame = NoFrame
    /\ oldPrev = <<>>
    /\ writes = <<>>
    /\ NoAnimation

\* alphabet = build_alphabet(text, pool_key)
BuildAlphabet ==
    /\ pc = "call"
    /\ pc' = "built"
    /\ alphabet' = build_alphabet(prog, text, pool_key)
    /\ UNCHANGED <<prog, bvars, rvars, text, pool_key, pal_name, rainbow_active, svars, lvars, tvars,
                   mvars>>

NextAlphabet == BuildAlphabet

SpecAlphabet == InitAlphabet /\ [][NextAlphabet]_vars

\* C10: every symbol that becomes a cell target (every symbol of T other than
\* the line break, upper-cased in main3..Main6) is in build_alphabet(T, P),
\* for every pool key P, unknown keys included.
C10_AlphabetSuperset ==
    pc = "built" => CellTargets(prog, text) \subseteq SetOf(alphabet)

\* C10 witness: an alphabet built for a text with a symbol its pool lacks
C10_Witness ==
    /\ pc = "built"
    /\ \E c \in CellTargets(prog, text) : c \notin SetOf(PoolOf(prog, pool_key))
    /\ pool_key = "no such pool"

\* the symbols of a sequence by strictly ascending code point: no symbol
\* twice, and an order fixed by the set of symbols alone
Ascending(a) == \A i, j \in 1..Len(a) : i < j => Ord[a[i]] < Ord[a[j]]

\* C11 as stated: the alphabet has no duplicate, its symbols are exactly the
\* pool's united with the symbols of T other than the line break, and its
\* order depends on that set only
C11_AlphabetIsPoolPlusText ==
    pc = "built" =>
        /\ Ascending(alphabet)
        /\ SetOf(alphabet) = SetOf(PoolOf(prog, pool_key)) \cup (SetOf(text) \ {NL})

\* C11 amended: the alphabet has no duplicate, its symbols are exactly the
\* pool's united with the symbols of T other than the line break, upper-cased
\* in main3..Main6, its order depends on that set only, and for the empty
\* target its symbols are the pool's
C11_AlphabetIsPoolPlusCellTargets ==
    pc = "built" =>
        /\ Ascending(alphabet)
        /\ SetOf(alphabet) = SetOf(PoolOf(prog, pool_key)) \cup CellTargets(prog, text)
        /\ (text = <<>> => SetOf(alphabet) = SetOf(PoolOf(prog, pool_key)))

\* an alphabet built in Main6 for a lower-case text that repeats a symbol
C11_Witness ==
    /\ pc = "built"
    /\ prog = "Main6"
    /\ text = <<"a", "a">>
    /\ alphabet = <<" ", "A", "B">>

-----------------------------------------------------------------------------
(* The 5x6 font and render_line_ascii *)

FH == 6
FW == 5

\* the symbol that replaces "#" in a glyph row
BLOCK == "FULL BLOCK"

FontKeys == {"A", "B", "1", " ", "?", "-"}

FONT(c) ==
    CASE c = "A" -> << <<" ", "#", "#", "#", " ">>, <<"#", " ", " ", " ", "#">>,
                       <<"#", " ", " ", " ", "#">>, <<"#", "#", "#", "#", "#">>,
                       <<"#", " ", " ", " ", "#">>, <<"#", " ", " ", " ", "#">> >>
      [] c = "B" -> << <<"#", "#", "#", "#", " ">>, <<"#", " ", " ", " ", "#">>,
                       <<"#", "#", "#", "#", " ">>, <<"#", " ", " ", " ", "#">>,
                       <<"#", " ", " ", " ", "#">>, <<"#", "#", "#", "#", " ">> >>
      [] c = "1" -> << <<" ", " ", "#", " ", " ">>, <<" ", "#", "#", " ", " ">>,
                       <<" ", " ", "#", " ", " ">>, <<" ", " ", "#", " ", " ">>,
                       <<" ", " ", "#", " ", " ">>, <<" ", "#", "#", "#", " ">> >>
      [] c = " " -> << <<" ", " ", " ", " ", " ">>, <<" ", " ", " ", " ", " ">>,
                       <<" ", " ", " ", " ", " ">>, <<" ", " ", " ", " ", " ">>,
                       <<" ", " ", " ", " ", " ">>, <<" ", " ", " ", " ", " ">> >>
      [] c = "?" -> << <<" ", "#", "#", "#", " ">>, <<"#", " ", " ", " ", "#">>,
                       <<" ", " ", " ", "#", " ">>, <<" ", " ", "#", " ", " ">>,
                       <<" ", " ", " ", " ", " ">>, <<" ", " ", "#", " ", " ">> >>
      [] c = "-" -> << <<" ", " ", " ", " ", " ">>, <<" ", " ", " ", " ", " ">>,
                       <<" ", "#", "#", "#", " ">>, <<" ", " ", " ", " ", " ">>,
                       <<" ", " ", " ", " ", " ">>, <<" ", " ", " ", " ", " ">> >>

\* FONT.get(ch.upper(), fallback): "?" in main3, "-" from Main4 on
glyph(p, ch) ==
    IF UpperOf(ch) \in FontKeys THEN FONT(UpperOf(ch))
    ELSE IF p = "main3" THEN FONT("?") ELSE FONT("-")

\* row.replace("#", "█") on every row of the glyph
glyph_plain(p, ch) ==
    [r \in 1..FH |-> [k \in 1..Len(glyph(p, ch)[r]) |->
        IF glyph(p, ch)[r][k] = "#" THEN BLOCK ELSE glyph(p, ch)[r][k]]]

\* color + g[r] + reset + " " for one symbol of the line; color is <<>> for ""
CellRow(p, ch, color, r) ==
    color \o glyph_plain(p, ch)[r] \o (IF color # <<>> THEN <<RESET>> ELSE <<>>) \o <<" ">>

ColourAt(color_seq, idx) ==
    IF color_seq # <<>> /\ idx <= Len(color_seq) THEN <<color_seq[idx]>> ELSE <<>>

RECURSIVE RowUpTo(_, _, _, _, _)
RowUpTo(p, line, color_seq, r, n) ==
    IF n = 0 THEN <<>>
    ELSE RowUpTo(p, line, color_seq, r, n - 1) \o CellRow(p, line[n], ColourAt(color_seq, n), r)

render_line_ascii(p, line, color_seq) ==
    [r \in 1..FH |-> RowUpTo(p, line, color_seq, r, Len(line))]

-----------------------------------------------------------------------------
(* animate_scramble_ascii (main3..Main6): the locals and the pure steps *)

MaxStagger == 1
MaxTime == 2
MaxTries == 2

\* what draw() assigns, and the rest of the renderer and terminal
drawvars == <<prev, height, screen, frame, oldPrev, writes>>

termvars == <<use_alt, cursorOn, altOn>>

\* all(locked)
AllLocked(lk) == \A i \in 1..Len(lk) : lk[i]

\* locked.index(False) does not raise ValueError
HasUnlocked(lk) == \E i \in 1..Len(lk) : ~lk[i]

\* an update that always works on the first cell of the line
FirstCell(lk) == 1

\* the last unlocked cell of the line instead of the first
LastUnlocked(lk) == CHOOSE i \in 1..Len(lk) : ~lk[i] /\ \A j \in (i + 1)..Len(lk) : lk[j]

\* locked.index(False), counted from 1
FirstUnlocked(lk) == CHOOSE i \in 1..Len(lk) : ~lk[i] /\ \A j \in 1..(i - 1) : lk[j]

\* a stagger test that holds no line back
ReleasedAlways(t, line, stg) == TRUE

\* a stagger that lets the first line go and holds every other line back
ReleasedFirstOnly(t, line, stg) == line = 0

\* not (time.perf_counter() < start + li*stagger), with start the origin of
\* the clock and li counted from 0
Released(t, line, stg) == ~(t < line * stg)

\* a stagger branch that leaves all_done alone in every program
StaggerDoneBare(p, done, lk) == done

\* all_done after the stagger branch: main3 has a bare continue, Main4..Main6
\* have all_done = all_done and all(locked)
StaggerDone(p, done, lk) == IF p = "main3" THEN done ELSE done /\ AllLocked(lk)

\* a bias without the cap
BiasUncapped(t) == 15 + t * 2

\* bias = min(0.85, 0.15 + tries*0.02), in hundredths
Bias(t) == IF 15 + t * 2 < 85 THEN 15 + t * 2 ELSE 85

\* values of random.random(), in hundredths
Rolls == {0, 18, 99}

\* tries[li][i] as the model keeps it: counted up to MaxTries, from where on
\* every roll of Rolls falls on the same side of the bias (17 after one try,
\* 19 and more after two, never more than 85); the bias computed from the
\* count at MaxTries stands for that of every later attempt
Counted(n) == IF n < MaxTries THEN n ELSE MaxTries

\* " " if tgt[i] == " " else random.choice(alphabet)
FreePicks(alph, c) == IF c = " " THEN {" "} ELSE SetOf(alph)

\* the symbols the update can pick for a cell of target c after t tries
Picks(p, alph, c, t) ==
    IF p \in {"Main5", "Main6"}
    THEN UNION { IF roll < Bias(t) THEN {c} ELSE FreePicks(alph, c) : roll \in Rolls }
    ELSE FreePicks(alph, c)

\* pal = PALETTES.get(theme, PALETTES["cyberpunk"]), the argument of the
\* animation
pal(p) == PALETTES(pal_name)

\* hue += 1 at the end of a tick
NextHue(h) == IF rainbow_active THEN (h + 1) % Len(RAINBOW) ELSE h

\* the palette the frame builder of animate_scramble_ascii reads: the
\* argument pal, but PALETTES["cyberpunk"] in Main5
FramePal(p) == IF p = "Main5" THEN PALETTES("cyberpunk") ELSE pal(p)

\* the colors list built for one line state
Colors(p, st) ==
    [j \in 1..Len(st.disp) |->
        IF HasUnlocked(st.locked) /\ j = FirstUnlocked(st.locked)
        THEN (IF rainbow_active THEN RAINBOW[(hue % Len(RAINBOW)) + 1] ELSE FramePal(p).active)
        ELSE IF st.locked[j] THEN FramePal(p).locked
        ELSE FramePal(p).scramble]

\* Main4..Main6: the rows of every line, each followed by an empty spacer row
RECURSIVE RowsUpTo(_, _, _)
RowsUpTo(p, sts, n) ==
    IF n = 0 THEN <<>>
    ELSE RowsUpTo(p, sts, n - 1)
         \o render_line_ascii(p, sts[n].disp, Colors(p, sts[n])) \o << <<>> >>

\* main3: out_rows = [out_rows[r] + art_rows[r] for r in range(FH)], then
\* out_rows.append("")
RECURSIVE OutRowsUpTo(_, _, _)
OutRowsUpTo(p, sts, n) ==
    IF n = 0 THEN [r \in 1..FH |-> <<>>]
    ELSE LET sofar == OutRowsUpTo(p, sts, n - 1)
             art_rows == render_line_ascii(p, sts[n].disp, Colors(p, sts[n]))
         IN [r \in 1..FH |-> sofar[r] \o art_rows[r]] \o << <<>> >>

\* the frame built from the line states
FrameOf(p, sts) ==
    IF p = "main3" THEN OutRowsUpTo(p, sts, Len(sts)) ELSE RowsUpTo(p, sts, Len(sts))

\* the states list after the setup loop, for every outcome of random.choice
InitialStates(t, alph) ==
    LET lines == split(t)
        longest == MaxOf({Len(lines[k]) : k \in 1..Len(lines)})
        rows == UNION { [1..n -> SetOf(alph)] : n \in 0..longest }
    IN { [k \in 1..Len(lines) |->
            [tgt |-> upper(lines[k]), disp |-> d[k],
             locked |-> [i \in 1..Len(lines[k]) |-> FALSE]]] :
         d \in { e \in [1..Len(lines) -> rows] :
                 \A k \in 1..Len(lines) : Len(e[k]) = Len(lines[k]) } }

\* tries.append([0]*len(tgt)) for every line (Main5, Main6)
InitialTries(p, t) ==
    IF p \in {"Main5", "Main6"}
    THEN [k \in 1..Len(split(t)) |-> [i \in 1..Len(split(t)[k]) |-> 0]]
    ELSE <<>>

-----------------------------------------------------------------------------
(* animate_lockstep (main2): the locals and the pure steps *)

\* run_text = text if text.endswith("\n") else text + "\n"
RunText(t) == IF Len(t) > 0 /\ t[Len(t)] = NL THEN t ELSE t \o <<NL>>

\* indices = [i for i, ch in enumerate(chars) if ch != "\n"], counted from 0
IndicesOf(chs) == SelectSeq([k \in 1..Len(chs) |-> k - 1], LAMBDA j : chs[j + 1] # NL)

\* line_starts[n - 1]: pos before the n-th line
RECURSIVE LineStart(_, _)
LineStart(lines, n) ==
    IF n = 1 THEN 0 ELSE LineStart(lines, n - 1) + Len(lines[n - 1]) + 1

\* the n (from 0) of line_start = max(s for s in line_starts if s <= i)
LineOf(chs, i) ==
    LET lines == split(chs)
        n == CHOOSE k \in 1..Len(lines) :
                 /\ LineStart(lines, k) <= i
                 /\ \A m \in 1..Len(lines) :
                        LineStart(lines, m) <= i => LineStart(lines, m) <= LineStart(lines, k)
    IN n - 1

\* "".join(parts)
RECURSIVE Flatten(_)
Flatten(parts) ==
    IF parts = <<>> THEN <<>> ELSE Head(parts) \o Flatten(Tail(parts))

\* colorize(ch, state, pal, hue, rainbow_active) with rainbow_active off
colorize(p, ch, state) == <<pal(p)[state], ch, RESET>>

\* the frame the stagger branch writes
StaggerOut(p, dsp, lk) ==
    Flatten([j \in 1..Len(dsp) |->
        IF dsp[j] # NL
        THEN colorize(p, dsp[j], IF ~lk[j] THEN "scramble" ELSE "locked")
        ELSE <<NL>>])

\* the frame written after an attempt; active_idx counts from 0, -1 for none
Out(p, chs, dsp, lk, active_idx) ==
    Flatten([j \in 1..Len(dsp) |->
        IF chs[j] = NL THEN <<NL>>
        ELSE IF lk[j] THEN colorize(p, dsp[j], "locked")
        ELSE IF j - 1 = active_idx THEN colorize(p, dsp[j], "active")
        ELSE colorize(p, dsp[j], "scramble")])

\* indices.pop(i_ptr), i_ptr counted from 0
Pop(idx, ptr) == SubSeq(idx, 1, ptr) \o SubSeq(idx, ptr + 2, Len(idx))

\* the display list after setup, for every outcome of random.choice
InitialDisplays(chs, alph) ==
    { d \in [1..Len(chs) -> SetOf(alph) \cup {NL}] :
        \A j \in 1..Len(chs) : IF chs[j] = NL THEN d[j] = NL ELSE d[j] \in SetOf(alph) }

-----------------------------------------------------------------------------
(* The scramble animations as state machines *)

ScrambleProgs == {"main2", "main3", "Main4", "Main5", "Main6"}

RendererUsers == {"Main4", "Main5", "Main6"}

ScrambleTexts ==
    { <<>>, <<" ">>, <<"a">>, <<"a", "b">>, <<"a", NL, "b">>, <<NL, "b">>, <<" ", "a">> }

\* no typewriter at work
NoTypewriter ==
    /\ shown = <<>>
    /\ cur_r = 0
    /\ cur_c = 0
    /\ type_draws = 0

\* the run has not called begin() and has met no interrupt
NoRun ==
    /\ entered = FALSE
    /\ ends = 0
    /\ intAt = "none"
    /\ raising = FALSE

\* the locals of the animation when its loop is about to be set up
ScrambleLocals ==
    /\ pool_key = "letters"
    /\ alphabet = build_alphabet(prog, IF prog = "main2" THEN RunText(text) ELSE text, pool_key)
    /\ stagger \in 0..MaxStagger
    /\ now = 0
    /\ all_done = FALSE
    /\ li = 0
    /\ ascii_rows = <<>>
    /\ IF prog = "main2"
       THEN /\ states = <<>>
            /\ tries = <<>>
            /\ bias = 0
            /\ hue = 0
            /\ chars = RunText(text)
            /\ locked = [j \in 1..Len(chars) |-> chars[j] = NL]
            /\ display \in InitialDisplays(chars, alphabet)
            /\ indices = IndicesOf(chars)
            /\ i_ptr = 0
       ELSE /\ states \in InitialStates(text, alphabet)
            /\ tries = InitialTries(prog, text)
            /\ bias = 0
            /\ hue = 0
            /\ chars = <<>>
            /\ locked = <<>>
            /\ display = <<>>
            /\ indices = <<>>
            /\ i_ptr = 0

\* the state in which the animation of one of progs is called with one of
\* texts, the theme and the rainbow flag left open
ScrambleCall(progs, texts) ==
    /\ NoBlock
    /\ prog \in progs
    /\ pc = "setup"
    /\ text \in texts
    /\ prev = <<>>
    /\ height = 0
    /\ use_alt = TRUE
    /\ screen = <<>>
    /\ cursorOn = TRUE
    /\ altOn = FALSE
    /\ frame = NoFrame
    /\ oldPrev = <<>>
    /\ writes = <<>>
    /\ mode = "scramble"
    /\ ScrambleLocals
    /\ NoTypewriter
    /\ NoRun

\* the call with the theme main() starts with and the rainbow switched off
ScrambleSetup(progs, texts) == ScrambleCall(progs, texts) /\ PlainLook

InitScramble == ScrambleSetup(ScrambleProgs, ScrambleTexts)

\* the call renderer.begin()
EnterBegin ==
    /\ pc = "setup"
    /\ prog \in RendererUsers
    /\ pc' = "begin"
    /\ entered' = TRUE
    /\ UNCHANGED <<prog, bvars, rvars, avars, svars, lvars, tvars, mode, ends, intAt, raising>>

\* begin(): if self.use_alt: sys.stdout.write(ALT_ON)
BeginAlt ==
    /\ pc = "begin"
    /\ pc' = "begin_hide"
    /\ altOn' = (use_alt \/ altOn)
    /\ UNCHANGED <<prog, bvars, drawvars, use_alt, cursorOn, avars, svars, lvars, tvars, mvars>>

\* begin(): sys.stdout.write(HIDE + goto(1,1)); the try block is entered
BeginHide ==
    /\ pc = "begin_hide"
    /\ pc' = IF mode = "scramble" THEN "loop" ELSE "type"
    /\ cursorOn' = FALSE
    /\ UNCHANGED <<prog, bvars, drawvars, use_alt, altOn, avars, svars, lvars, tvars, mvars>>

\* main3: sys.stdout.write(HIDE)
Hide3 ==
    /\ pc = "setup"
    /\ prog = "main3"
    /\ pc' = IF mode = "scramble" THEN "loop" ELSE "type"
    /\ cursorOn' = FALSE
    /\ UNCHANGED <<prog, bvars, drawvars, use_alt, altOn, avars, svars, lvars, tvars, mvars>>

\* while True: all_done = True, and the for loop over the states starts
TickStart ==
    /\ pc = "loop"
    /\ prog # "main2"
    /\ pc' = "update"
    /\ all_done' = TRUE
    /\ li' = 0
    /\ UNCHANGED <<prog, bvars, rvars, avars, stagger, now, states, tries, bias, hue, ascii_rows, lvars, tvars, mvars>>

\* one pass of the body of "for li, (tgt, disp, locked) in enumerate(states)"
UpdateLine ==
    /\ pc = "update"
    /\ li < Len(states)
    /\ \E t \in now..MaxTime :
        /\ now' = t
        /\ LET st == states[li + 1]
           IN IF ~Released(t, li, stagger)
              THEN /\ all_done' = StaggerDone(prog, all_done, st.locked)
                   /\ UNCHANGED <<states, tries, bias>>
              ELSE IF ~HasUnlocked(st.locked)
              THEN UNCHANGED <<all_done, states, tries, bias>>
              ELSE \E i \in {FirstUnlocked(st.locked)} :
                   /\ all_done' = FALSE
                   /\ IF prog \in {"Main5", "Main6"}
                      THEN /\ tries' = [tries EXCEPT ![li + 1][i] = Counted(@ + 1)]
                           /\ bias' = Bias(tries'[li + 1][i])
                      ELSE UNCHANGED <<tries, bias>>
                   /\ \E pick \in Picks(prog, alphabet, st.tgt[i],
                                        IF prog \in {"Main5", "Main6"} THEN tries'[li + 1][i] ELSE 0) :
                        states' = [states EXCEPT
                            ![li + 1].disp[i] = pick,
                            ![li + 1].locked[i] = IF pick = st.tgt[i] THEN TRUE ELSE @]
    /\ li' = li + 1
    /\ UNCHANGED <<prog, bvars, pc, rvars, avars, stagger, hue, ascii_rows, lvars, tvars, mvars>>

\* the frame is built and drawn; "if all_done: break", else the next tick
DrawTick ==
    /\ pc = "update"
    /\ li = Len(states)
    /\ ascii_rows' = FrameOf(prog, states)
    /\ IF prog \in RendererUsers
       THEN DrawCall(ascii_rows')
       ELSE /\ frame' = ascii_rows'
            /\ UNCHANGED <<prev, height, screen, oldPrev, writes>>
    /\ pc' = IF all_done THEN "final" ELSE "loop"
    /\ hue' = IF all_done THEN hue ELSE NextHue(hue)
    /\ UNCHANGED <<prog, bvars, termvars, avars, stagger, now, states, tries, bias, all_done, li, lvars, tvars, mvars>>

\* after the loop: renderer.draw(ascii_rows) (print() in main3), then finally
FinalDraw ==
    /\ pc = "final"
    /\ IF prog \in RendererUsers
       THEN DrawCall(ascii_rows)
       ELSE UNCHANGED drawvars
    /\ pc' = "end"
    /\ UNCHANGED <<prog, bvars, termvars, avars, svars, lvars, tvars, mvars>>

\* end(): sys.stdout.write(goto(self.height + 1, 1) + SHOW), called from the
\* finally clause (site "end") or from main()'s handler (site "handler")
EndShow(site) ==
    /\ pc = site
    /\ prog \in RendererUsers
    /\ pc' = IF site = "end" THEN "end_alt" ELSE "handler_alt"
    /\ cursorOn' = TRUE
    /\ UNCHANGED <<prog, bvars, drawvars, use_alt, altOn, avars, svars, lvars, tvars, mvars>>

\* end(): if self.use_alt: sys.stdout.write(ALT_OFF); flush; the call returns
EndAlt(site) ==
    /\ pc = IF site = "end" THEN "end_alt" ELSE "handler_alt"
    /\ altOn' = IF use_alt THEN FALSE ELSE altOn
    /\ ends' = ends + 1
    /\ pc' = IF site = "end" /\ raising THEN "handler"
             ELSE IF site = "end" THEN "leaving" ELSE "returned"
    /\ UNCHANGED <<prog, bvars, drawvars, use_alt, cursorOn, avars, svars, lvars, tvars,
                   mode, entered, intAt, raising>>

\* animate_*_ascii returns to main() and the try statement there ends
Return ==
    /\ pc = "leaving"
    /\ pc' = "done"
    /\ UNCHANGED <<prog, bvars, rvars, avars, svars, lvars, tvars, mvars>>

\* main3: finally: sys.stdout.write(SHOW + RESET)
Show3 ==
    /\ pc = "end"
    /\ prog = "main3"
    /\ pc' = "done"
    /\ cursorOn' = TRUE
    /\ UNCHANGED <<prog, bvars, drawvars, use_alt, altOn, avars, svars, lvars, tvars, mvars>>

\* main2 with CLEAR + HOME + HIDE written ahead of the test of indices
LockstepStartHidden ==
    /\ pc = "setup"
    /\ prog = "main2"
    /\ pc' = IF indices = <<>> THEN "done" ELSE "loop"
    /\ cursorOn' = FALSE
    /\ UNCHANGED <<prog, bvars, drawvars, use_alt, altOn, avars, svars, lvars, tvars, mvars>>

\* main2: "if not indices: print(target); return", else CLEAR + HOME + HIDE is
\* written and the try block is entered
LockstepStart ==
    /\ pc = "setup"
    /\ prog = "main2"
    /\ IF indices = <<>>
       THEN pc' = "done" /\ UNCHANGED cursorOn
       ELSE pc' = "loop" /\ cursorOn' = FALSE
    /\ UNCHANGED <<prog, bvars, drawvars, use_alt, altOn, avars, svars, lvars, tvars, mvars>>

\* a cursor that stays on the cell that failed to match
AfterMissStay(ptr) == ptr

\* else: i_ptr += 1
AfterMiss(ptr) == ptr + 1

\* a release test that holds no cell back
HeldNever(t, i) == FALSE

\* time.perf_counter() < next_allowed_time.get(line_start, 0.0) for the line
\* of cell i: next_allowed_time[start of line n] = t0 + n * per_line_stagger
Held(t, i) == t < LineOf(chars, i) * stagger

\* main2: one iteration of "while not all(locked)"
LockstepIter ==
    /\ pc = "loop"
    /\ prog = "main2"
    /\ ~AllLocked(locked)
    /\ indices # <<>>
    /\ LET ptr == i_ptr % Len(indices)
           i == indices[ptr + 1]
       IN \E t \in now..MaxTime :
            /\ now' = t
            /\ IF Held(t, i)
               THEN /\ i_ptr' = ptr
                    /\ frame' = <<StaggerOut(prog, display, locked)>>
                    /\ UNCHANGED <<locked, display, indices>>
               ELSE /\ IF ~locked[i + 1]
                       THEN \E pick \in SetOf(alphabet) :
                            /\ display' = [display EXCEPT ![i + 1] = pick]
                            /\ IF pick = chars[i + 1]
                               THEN /\ locked' = [locked EXCEPT ![i + 1] = TRUE]
                                    /\ indices' = Pop(indices, ptr)
                                    /\ i_ptr' = ptr
                               ELSE /\ i_ptr' = AfterMiss(ptr)
                                    /\ UNCHANGED <<locked, indices>>
                       ELSE /\ i_ptr' = ptr
                            /\ UNCHANGED <<locked, display, indices>>
                    /\ frame' = <<Out(prog, chars, display', locked',
                                      IF indices' # <<>>
                                      THEN indices'[(i_ptr' % Len(indices')) + 1]
                                      ELSE -1)>>
    /\ UNCHANGED <<prog, bvars, pc, prev, height, screen, oldPrev, writes, termvars, avars,
                   stagger, states, tries, bias, hue, all_done, li, ascii_rows, chars, tvars, mvars>>

\* main2: the loop ends (all locked, or "if not indices: break"), "\n" is
\* written and the finally clause writes SHOW + RESET
LockstepExit ==
    /\ pc = "loop"
    /\ prog = "main2"
    /\ (AllLocked(locked) \/ indices = <<>>)
    /\ pc' = "done"
    /\ cursorOn' = TRUE
    /\ UNCHANGED <<prog, bvars, drawvars, use_alt, altOn, avars, svars, lvars, tvars, mvars>>

NextScramble ==
    \/ EnterBegin
    \/ BeginAlt
    \/ BeginHide
    \/ Hide3
    \/ TickStart
    \/ UpdateLine
    \/ DrawTick
    \/ FinalDraw
    \/ EndShow("end")
    \/ EndAlt("end")
    \/ Return
    \/ Show3
    \/ LockstepStart
    \/ LockstepIter
    \/ LockstepExit

SpecScramble == InitScramble /\ [][NextScramble]_vars

\* the animation is never suspended for good: the process keeps running as
\* long as it has a step to take
SpecScrambleFair == SpecScramble /\ WF_vars(NextScramble)

-----------------------------------------------------------------------------
(* Properties of the scramble animations *)

\* the cells of the animation: <<0, j>> for chars[j] of main2, <<k, i>> for
\* cell i of line k in main3..Main6
CellIds ==
    IF prog = "main2" THEN {<<0, j>> : j \in 1..Len(chars)}
    ELSE UNION { {<<k, i>> : i \in 1..Len(states[k].tgt)} : k \in 1..Len(states) }

CellLocked(c) == IF prog = "main2" THEN locked[c[2]] ELSE states[c[1]].locked[c[2]]

CellShown(c) == IF prog = "main2" THEN display[c[2]] ELSE states[c[1]].disp[c[2]]

CellTarget(c) == IF prog = "main2" THEN chars[c[2]] ELSE states[c[1]].tgt[c[2]]

\* the while loop of animate_scramble_ascii has been left
LoopLeft == pc \in {"final", "end", "end_alt", "leaving", "done"}

\* the line states in which every cell shows its target and is locked
TargetStates(t) ==
    [k \in 1..Len(split(t)) |->
        [tgt |-> upper(split(t)[k]), disp |-> upper(split(t)[k]),
         locked |-> [i \in 1..Len(split(t)[k]) |-> TRUE]]]

\* C7: a cell that is locked stays locked and keeps the symbol it shows in
\* every later step, and a cell that is locked shows its target (main2 and
\* main3..Main6)
C7_MonotonicLock ==
    [][\A c \in CellIds :
          /\ CellLocked(c) => (CellLocked(c)' /\ CellShown(c)' = CellShown(c))
          /\ CellLocked(c)' => CellShown(c)' = CellTarget(c)']_vars

\* a tick has worked on the second cell of a line after the first one locked
C7_Witness ==
    /\ prog = "Main6"
    /\ \E k \in 1..Len(states) :
        /\ Len(states[k].tgt) = 2
        /\ states[k].locked[1]
        /\ ~states[k].locked[2]
        /\ tries[k][2] >= 1
        /\ states[k].disp[2] # states[k].tgt[2]

\* C8: in Main4..Main6 the loop is left only with every cell of every line
\* locked and showing its target, and the last frame handed to draw() is the
\* rendering of the upper-cased target text
C8_LeavesLoopConverged ==
    (prog \in RendererUsers /\ mode = "scramble" /\ LoopLeft) =>
        /\ \A c \in CellIds : CellLocked(c) /\ CellShown(c) = CellTarget(c)
        /\ frame = FrameOf(prog, TargetStates(text))

\* a two-line text run with a stagger has come to its end
C8_Witness ==
    /\ prog \in RendererUsers
    /\ pc = "done"
    /\ stagger = 1
    /\ text = <<"a", NL, "b">>
    /\ intAt = "none"

\* C9: in main3 the loop is left only with every cell of every line locked
C9_Main3BreaksOnlyWhenAllLocked ==
    (prog = "main3" /\ LoopLeft) => \A c \in CellIds : CellLocked(c)

\* C17: with the two-cell target "AB" every run of the scramble locks both
\* cells after finitely many ticks and comes to its end, whatever the random
\* draws are
C17_ScrambleLocksAB ==
    (text = <<"a", "b">> /\ pc = "setup") ~> (pc = "done")

\* C18: every cell whose target is a space or a line break is locked from
\* construction on and shows its target (it never holds a random symbol)
C18_BlankCellsLockedFromStart ==
    (prog \in ScrambleProgs /\ mode = "scramble") =>
        \A c \in CellIds :
            CellTarget(c) \in {" ", NL} => (CellLocked(c) /\ CellShown(c) = CellTarget(c))

\* the text has no cell other than spaces and line breaks
BlankOnly(t) == \A i \in 1..Len(t) : t[i] \in {" ", NL}

\* C19: when no line of the text has a non-blank cell, no step of the loop
\* resolves a cell: every cell keeps its lock and its symbol
C19_BlankLinesNeedNoTick ==
    [][(prog \in ScrambleProgs /\ mode = "scramble" /\ BlankOnly(text)) =>
          \A c \in CellIds :
              /\ CellLocked(c)' = CellLocked(c)
              /\ CellShown(c)' = CellShown(c)]_vars

\* the number (from 0) of the line a cell belongs to
LineNo(c) == IF prog = "main2" THEN LineOf(chars, c[2] - 1) ELSE c[1] - 1

\* C21: a step that reads a time earlier than li * stagger leaves every cell
\* of line li as it was: its lock and the symbol it shows do not change
C21_HeldLineUntouched ==
    [][(prog \in ScrambleProgs /\ mode = "scramble") =>
          \A c \in CellIds :
              (now' < LineNo(c) * stagger) =>
                  /\ CellLocked(c)' = CellLocked(c)
                  /\ CellShown(c)' = CellShown(c)]_vars

\* the first tick of a staggered two-line text has passed over both lines at
\* time 0: line 0 has locked its cell and line 1 is still held back
C21_Witness ==
    /\ prog = "Main6"
    /\ text = <<"a", NL, "b">>
    /\ stagger = 1
    /\ now = 0
    /\ pc = "update"
    /\ li = 2
    /\ states[1].locked[1]
    /\ ~states[2].locked[1]

\* the draw call that returned last wrote row r in its first loop
Rewritten(r) == \E i \in 1..Len(writes) : writes[i].row = r /\ writes[i].kind = "row"

\* C22 (as claimed): draw rewrites row r exactly when what the new row
\* shows, colour escapes left out, differs from what the row drawn there
\* before shows
C22_RewritesIffVisibleChange ==
    (prog \in RendererUsers /\ Drawn) =>
        \E padded \in {Padded(frame)} :
            \A r \in 1..MaxRowsOf(oldPrev, padded) :
                Rewritten(r) <=>
                    \/ r > Len(oldPrev)
                    \/ strip_ansi(NewLine(padded, r)) # strip_ansi(oldPrev[r])

\* C22 (amended): draw rewrites row r exactly when the padded new row,
\* colour escapes included, differs from the row prev holds (or prev has no
\* row r), and then writes the whole padded row and RESET at row r, once
C22_RewritesIffPaddedRowDiffers ==
    (prog \in RendererUsers /\ Drawn) =>
        \E padded \in {Padded(frame)} :
            \A r \in 1..MaxRowsOf(oldPrev, padded) :
                IF r > Len(oldPrev) \/ NewLine(padded, r) # oldPrev[r]
                THEN \E i \in 1..Len(writes) :
                        /\ writes[i] = [row |-> r, kind |-> "row",
                                        text |-> NewLine(padded, r) \o <<RESET>>]
                        /\ \A j \in 1..Len(writes) :
                              (writes[j].row = r /\ writes[j].kind = "row") => j = i
                ELSE ~Rewritten(r)

\* a draw of the scramble has rewritten a row that shows the same symbols
\* as before in another colour
C22_Witness ==
    /\ prog \in RendererUsers
    /\ mode = "scramble"
    /\ Drawn
    /\ \E r \in 1..Len(oldPrev) :
          /\ r <= Len(frame)
          /\ strip_ansi(NewLine(Padded(frame), r)) = strip_ansi(oldPrev[r])
          /\ NewLine(Padded(frame), r) # oldPrev[r]
          /\ Rewritten(r)

-----------------------------------------------------------------------------
(* Termination of the scramble under fair random draws.  time.perf_counter()
   grows from tick to tick (every tick sleeps), and the random draws for the
   cell that is attempted are assumed to equal its target at some attempt. *)

\* a later reading of time.perf_counter() than the one before
ClockAdvances == (UpdateLine \/ LockstepIter) /\ now' > now

\* the pick of an attempt equals the cell's target: the cell is locked
AttemptHits ==
    \/ UpdateLine /\ \E k \in 1..Len(states) : states'[k].locked # states[k].locked
    \/ LockstepIter /\ locked' # locked

\* texts of one line and of two, the first line empty or not
LuckyTexts == { <<"a">>, <<"a", "b">>, <<"a", NL, "b">>, <<NL, "b">> }

\* the programs with a loop that ends only when every cell is locked;
\* animate_scramble_ascii of Main5 is the one of Main6
LuckyProgs == {"main2", "Main4", "Main6"}

InitLucky == ScrambleSetup(LuckyProgs, LuckyTexts)

\* every step of the animations but the one that draws the frame of a tick
StepsButDrawTick ==
    \/ EnterBegin
    \/ BeginAlt
    \/ BeginHide
    \/ TickStart
    \/ UpdateLine
    \/ FinalDraw
    \/ EndShow("end")
    \/ EndAlt("end")
    \/ Return
    \/ LockstepStart
    \/ LockstepIter
    \/ LockstepExit

NextLucky == StepsButDrawTick \/ DrawTick

\* the for loop of a tick is over and its frame is about to be drawn; DrawTick
\* is the step that is taken from here, and it leaves this position
AtDrawTick == pc = "update" /\ li = Len(states)

\* the process keeps running (weak fairness of every step, written for
\* DrawTick as its position being left again and again), the clock advances
\* and the attempts hit at some time
SpecScrambleLucky ==
    /\ InitLucky
    /\ [][NextLucky]_vars
    /\ WF_vars(StepsButDrawTick)
    /\ []<>~AtDrawTick
    /\ SF_vars(ClockAdvances)
    /\ SF_vars(AttemptHits)

\* the run is over, every cell is locked and the terminal is given back
CleanedUp ==
    /\ pc = "done"
    /\ \A c \in CellIds : CellLocked(c)
    /\ cursorOn
    /\ ~altOn
    /\ prog \in RendererUsers => ends = 1

\* C30: when the draws of an attempted cell equal its target at some attempt,
\* every run of animate_lockstep (main2) and of animate_scramble_ascii
\* (Main4..Main6), for every text and stagger, locks every cell, leaves its
\* loop and runs its cleanup
C30_ScrambleTerminates ==
    (pc = "setup") ~> CleanedUp

\* Main6 has resolved two staggered lines, after a miss, and has cleaned up;
\* main2 likewise
C30_Witness ==
    /\ CleanedUp
    /\ text = <<"a", NL, "b">>
    /\ stagger = 1
    /\ \/ prog = "Main6" /\ tries[2][1] >= 2
       \/ prog = "main2" /\ now = MaxTime

-----------------------------------------------------------------------------
(* animate_scramble_ascii of Main4..Main6 called with a theme of the menu and
   with the rainbow on or off *)

Themes == {"cyberpunk", "neon"}

ColourTexts == { <<"a", "b">>, <<NL, "b">> }

InitColours ==
    /\ ScrambleCall(RendererUsers, ColourTexts)
    /\ pal_name \in Themes
    /\ rainbow_active \in BOOLEAN

NextColours ==
    \/ EnterBegin
    \/ BeginAlt
    \/ BeginHide
    \/ TickStart
    \/ UpdateLine
    \/ DrawTick
    \/ FinalDraw
    \/ EndShow("end")
    \/ EndAlt("end")
    \/ Return

SpecColours == InitColours /\ [][NextColours]_vars

\* the colour of cell j of a line by its role, from the palette of the theme
\* the caller chose
RoleColour(st, j) ==
    IF HasUnlocked(st.locked) /\ j = FirstUnlocked(st.locked)
    THEN (IF rainbow_active THEN RAINBOW[(hue % 6) + 1] ELSE PALETTES(pal_name).active)
    ELSE IF st.locked[j] THEN PALETTES(pal_name).locked
    ELSE PALETTES(pal_name).scramble

\* the rows of the first n lines with every cell in the colour of its role
RECURSIVE RoleRows(_)
RoleRows(n) ==
    IF n = 0 THEN <<>>
    ELSE RoleRows(n - 1)
         \o render_line_ascii(prog, states[n].disp,
                              [j \in 1..Len(states[n].disp) |-> RoleColour(states[n], j)])
         \o << <<>> >>

\* C32: the frame drawn by a tick shows every cell of every line in the
\* colour of its role in the palette the caller passed: the first unlocked
\* cell of a line (one at most) in pal["active"], or RAINBOW[hue mod 6]
\* with the rainbow on, a locked cell in pal["locked"], every other cell in
\* pal["scramble"]
C32_CellsColouredByRole ==
    [][(pc = "update" /\ pc' # "update") => frame' = RoleRows(Len(states))]_vars

-----------------------------------------------------------------------------
(* The attempts of Main5/Main6 at one cell, tick after tick, with the count
   of tries kept exactly (begin() and the drawing left out) *)

MaxAttempts == 40

BiasedProgs == {"Main5", "Main6"}

InitBias == ScrambleSetup(BiasedProgs, { <<"a">> })

\* values of random.random(), in hundredths: every one of them
AllRolls == 0..99

\* the attempt of a tick at the cell: tries[li][i] += 1, the bias, the roll,
\* the pick, and the lock when the pick is the target
BiasedAttempt ==
    /\ pc \in {"setup", "ticking"}
    /\ pc' = "ticking"
    /\ ~states[1].locked[1]
    /\ tries[1][1] < MaxAttempts
    /\ tries' = [tries EXCEPT ![1][1] = @ + 1]
    /\ bias' = Bias(tries'[1][1])
    /\ \E roll \in AllRolls :
        \E pick \in (IF roll < bias' THEN {states[1].tgt[1]}
                      ELSE FreePicks(alphabet, states[1].tgt[1])) :
            states' = [states EXCEPT
                ![1].disp[1] = pick,
                ![1].locked[1] = IF pick = states[1].tgt[1] THEN TRUE ELSE @]
    /\ UNCHANGED <<prog, bvars, rvars, avars, stagger, now, hue, all_done, li, ascii_rows,
                   lvars, tvars, mvars>>

NextBias == BiasedAttempt

SpecBias == InitBias /\ [][NextBias]_vars

\* min(a, b) of two numbers in hundredths
MinOf2(a, b) == IF a < b THEN a ELSE b

\* C28 (as claimed): the bias of an attempt is min(0.85, 0.15 + 0.02 * a),
\* a being the number of attempts made on the cell before it
C28_BiasFromPriorAttempts ==
    [][tries' # tries => bias' = MinOf2(85, 15 + 2 * tries[1][1])]_vars

\* C28 (amended): the bias of an attempt is min(0.85, 0.15 + 0.02 * n), n
\* being the number of attempts made on the cell, this one included; it is
\* not less than the bias of the attempt before and never more than 0.85
C28_BiasFromAttemptsSoFar ==
    [][tries' # tries =>
          /\ bias' = MinOf2(85, 15 + 2 * (tries[1][1] + 1))
          /\ bias' >= bias
          /\ bias' <= 85]_vars

\* the cell has missed often enough for the bias to have reached its cap
C28_Witness ==
    /\ prog \in BiasedProgs
    /\ pc = "ticking"
    /\ tries[1][1] > 35
    /\ bias = 85
    /\ ~states[1].locked[1]

-----------------------------------------------------------------------------
(* animate_lockstep (main2) on texts with two cells in a line *)

LockstepTexts == { <<"a", "b">>, <<"a", "b", NL, "a">> }

InitLockstep == ScrambleSetup({"main2"}, LockstepTexts)

NextLockstep ==
    \/ LockstepStart
    \/ LockstepIter
    \/ LockstepExit

SpecLockstep == InitLockstep /\ [][NextLockstep]_vars

\* i = indices[i_ptr] after i_ptr %= len(indices): the cell (from 0) the
\* cursor designates
CursorCell == indices[(i_ptr % Len(indices)) + 1]

\* the step is an iteration of the loop that attempts the cell at the
\* cursor: the line of that cell is released at the time the step reads
Attempt ==
    /\ prog = "main2"
    /\ pc = "loop"
    /\ pc' = "loop"
    /\ indices # <<>>
    /\ ~AllLocked(locked)
    /\ ~(now' < LineOf(chars, CursorCell) * stagger)

\* the unlocked cells (from 0) of the line of cell i
UnlockedInLine(idx, i) == {k \in SetOf(idx) : LineOf(chars, k) = LineOf(chars, i)}

\* the cell after the cursor's in indices, the first one after the last
NextInIndices == indices[(((i_ptr % Len(indices)) + 1) % Len(indices)) + 1]

\* C26: an attempt changes the cell at the cursor and no other; when the
\* draw equals the target the cell is locked and the cursor designates an
\* unlocked cell of the same line, if the line has one left; otherwise the
\* cell stays unlocked and the cursor designates the next unlocked cell
C26_AttemptResolvesCursorCell ==
    [][Attempt =>
          /\ \A k \in 1..Len(chars) :
                k # CursorCell + 1 => (display'[k] = display[k] /\ locked'[k] = locked[k])
          /\ IF display'[CursorCell + 1] = chars[CursorCell + 1]
             THEN /\ locked'[CursorCell + 1]
                  /\ UnlockedInLine(indices', CursorCell) # {} =>
                        CursorCell' \in UnlockedInLine(indices', CursorCell)
             ELSE /\ ~locked'[CursorCell + 1]
                  /\ CursorCell' = NextInIndices]_vars

-----------------------------------------------------------------------------
(* animate_typewriter_ascii and a run from main() (Main4..Main6) *)

\* the frame of the typewriter: every line of shown in the locked colour,
\* each followed by an empty row
RECURSIVE TypeRowsUpTo(_, _, _)
TypeRowsUpTo(p, shw, n) ==
    IF n = 0 THEN <<>>
    ELSE TypeRowsUpTo(p, shw, n - 1)
         \o render_line_ascii(p, shw[n], [j \in 1..Len(shw[n]) |-> pal(p).locked])
         \o << <<>> >>

\* main3: out_rows = [out_rows[i] + art_rows[i] for i in range(FH)], then
\* out_rows.append(""), for every line of shown
RECURSIVE TypeOutRowsUpTo(_, _, _)
TypeOutRowsUpTo(p, shw, n) ==
    IF n = 0 THEN [r \in 1..FH |-> <<>>]
    ELSE LET sofar == TypeOutRowsUpTo(p, shw, n - 1)
             art_rows == render_line_ascii(p, shw[n], [j \in 1..Len(shw[n]) |-> pal(p).locked])
         IN [r \in 1..FH |-> sofar[r] \o art_rows[r]] \o << <<>> >>

\* a frame built from the lines already started only
TypeFrameStarted(p, shw) ==
    TypeRowsUpTo(p, shw, Cardinality({k \in 1..Len(shw) : shw[k] # <<>>}))

\* the frame the typewriter builds from shown
TypeFrame(p, shw) ==
    IF p = "main3" THEN TypeOutRowsUpTo(p, shw, Len(shw)) ELSE TypeRowsUpTo(p, shw, Len(shw))

\* a test that stops one symbol short of the line
MoreToShowShort(c, line_up) == c < Len(line_up)

\* if c <= len(line_up)
MoreToShow(c, line_up) == c <= Len(line_up)

\* c <= len(line_up): shown[r] = line_up[:c]; c += 1; the frame is drawn
\* (renderer.draw in Main4..Main6, CLEAR + HOME and print in main3)
TypeReveal ==
    /\ pc = "type"
    /\ cur_r < Len(split(text))
    /\ MoreToShow(cur_c, upper(split(text)[cur_r + 1]))
    /\ shown' = [shown EXCEPT ![cur_r + 1] = SubSeq(upper(split(text)[cur_r + 1]), 1, cur_c)]
    /\ cur_c' = cur_c + 1
    /\ type_draws' = type_draws + 1
    /\ ascii_rows' = TypeFrame(prog, shown')
    /\ IF prog \in RendererUsers
       THEN DrawCall(ascii_rows')
       ELSE /\ frame' = ascii_rows'
            /\ UNCHANGED <<prev, height, screen, oldPrev, writes>>
    /\ UNCHANGED <<prog, bvars, pc, termvars, avars, stagger, now, states, tries, bias, hue, all_done, li,
                   lvars, cur_r, mvars>>

\* else: r += 1; c = 0; continue
TypeNextLine ==
    /\ pc = "type"
    /\ cur_r < Len(split(text))
    /\ ~MoreToShow(cur_c, upper(split(text)[cur_r + 1]))
    /\ cur_r' = cur_r + 1
    /\ cur_c' = 0
    /\ UNCHANGED <<prog, bvars, pc, rvars, avars, svars, lvars, shown, type_draws, mvars>>

\* a loop that is left with the last line still to reveal
TypeExitEarly ==
    /\ pc = "type"
    /\ cur_r >= Len(split(text)) - 1
    /\ pc' = "final"
    /\ UNCHANGED <<prog, bvars, rvars, avars, svars, lvars, tvars, mvars>>

\* r < len(lines) fails: the loop is over
TypeExit ==
    /\ pc = "type"
    /\ cur_r >= Len(split(text))
    /\ pc' = "final"
    /\ UNCHANGED <<prog, bvars, rvars, avars, svars, lvars, tvars, mvars>>

\* an interrupt that unwinds the run without any cleanup
OnInterruptUnwound(at) == "returned"

\* where control goes when KeyboardInterrupt is raised at "at": inside the
\* try block of the animation the finally clause runs end() and the
\* exception goes on to main(); everywhere else in the run (before the try,
\* inside begin(), inside the end() of the finally clause, on the way back)
\* it reaches "except KeyboardInterrupt: renderer.end()" directly
OnInterrupt(at) ==
    IF at \in {"loop", "update", "type", "final"} THEN "end" ELSE "handler"

\* KeyboardInterrupt arrives during the run (once)
Interrupt ==
    /\ intAt = "none"
    /\ pc \in {"setup", "begin", "begin_hide", "loop", "update", "type", "final",
               "end", "end_alt", "leaving"}
    /\ intAt' = pc
    /\ pc' = OnInterrupt(pc)
    /\ raising' = (pc' = "end")
    /\ UNCHANGED <<prog, bvars, rvars, avars, svars, lvars, tvars, mode, entered, ends>>

RunTexts == { <<>>, <<"a">>, <<"a", NL, "b">> }

\* the locals of animate_typewriter_ascii before its loop
TypewriterLocals ==
    /\ pool_key = "letters"
    /\ PlainLook
    /\ alphabet = <<>>
    /\ stagger = 0
    /\ now = 0
    /\ states = <<>>
    /\ tries = <<>>
    /\ bias = 0
    /\ hue = 0
    /\ all_done = FALSE
    /\ li = 0
    /\ ascii_rows = <<>>
    /\ chars = <<>>
    /\ locked = <<>>
    /\ display = <<>>
    /\ indices = <<>>
    /\ i_ptr = 0
    /\ shown = [k \in 1..Len(split(text)) |-> <<>>]
    /\ cur_r = 0
    /\ cur_c = 0
    /\ type_draws = 0

\* sel == "r": renderer = Renderer(use_alt_screen=use_alt), and the animation
\* of the chosen mode is called
InitRun ==
    /\ NoBlock
    /\ prog \in RendererUsers
    /\ pc = "setup"
    /\ text \in RunTexts
    /\ prev = <<>>
    /\ height = 0
    /\ use_alt \in BOOLEAN
    /\ screen = <<>>
    /\ cursorOn = TRUE
    /\ altOn = FALSE
    /\ frame = NoFrame
    /\ oldPrev = <<>>
    /\ writes = <<>>
    /\ mode \in {"scramble", "typewriter"}
    /\ IF mode = "scramble" THEN ScrambleLocals /\ PlainLook /\ NoTypewriter ELSE TypewriterLocals
    /\ NoRun

NextRun ==
    \/ EnterBegin
    \/ BeginAlt
    \/ BeginHide
    \/ TickStart
    \/ UpdateLine
    \/ DrawTick
    \/ TypeReveal
    \/ TypeNextLine
    \/ TypeExit
    \/ FinalDraw
    \/ EndShow("end")
    \/ EndAlt("end")
    \/ Return
    \/ Interrupt
    \/ EndShow("handler")
    \/ EndAlt("handler")

SpecRun == InitRun /\ [][NextRun]_vars

\* the run is over: the try statement of main() has been left
RunOver == pc \in {"done", "returned"}

\* C6: when a run of Main4..Main6 that entered begin() is over, normally or
\* after a KeyboardInterrupt, end() has been executed, the cursor is shown
\* and the alternate screen is not in use
C6_EndAlwaysRuns ==
    (prog \in RendererUsers /\ RunOver /\ entered) =>
        (ends >= 1 /\ cursorOn /\ ~altOn)

\* a run interrupted inside begin(), after the alternate screen was entered
C6_Witness ==
    /\ pc = "returned"
    /\ intAt = "begin_hide"
    /\ use_alt
    /\ ends = 1

\* the frame of the text with nothing left to resolve or to reveal
ResolvedFrame ==
    IF mode = "scramble" THEN FrameOf(prog, TargetStates(text))
    ELSE TypeRowsUpTo(prog, [k \in 1..Len(split(text)) |-> upper(split(text)[k])],
                      Len(split(text)))

\* the step is a call of draw() that reached the renderer's state
DrawStep == frame' # frame \/ writes' # writes \/ oldPrev' # oldPrev

\* C29: begin() is entered once, from the start of the run; every draw()
\* comes after begin() has returned and before any end(); and when the
\* animation completes normally, the draw() before end() has drawn the
\* fully resolved frame
C29_DriverOrdering ==
    [][/\ pc' = "begin" => (pc = "setup" /\ ~entered)
       /\ entered => entered'
       /\ DrawStep => (entered /\ ends = 0 /\ pc \in {"update", "type", "final"})
       /\ (pc = "final" /\ pc' = "end" /\ intAt' = "none") =>
              (frame' = ResolvedFrame /\ ends' = 0)]_vars

\* the typewriter has revealed a two-line text and the run is over, with no
\* interrupt
C29_Witness ==
    /\ prog = "Main4"
    /\ mode = "typewriter"
    /\ text = <<"a", NL, "b">>
    /\ pc = "done"
    /\ intAt = "none"
    /\ ends = 1
    /\ frame = ResolvedFrame

-----------------------------------------------------------------------------
(* animate_typewriter_ascii of main3 and Main4..Main6, from its call to its
   return *)

TypeProgs == {"main3", "Main4", "Main5", "Main6"}

TypeTexts ==
    { <<>>, <<"a">>, <<"a", "b">>, <<"a", NL, "b">>, <<NL, "b">>, <<"a", "b", NL>> }

InitTypewriter ==
    /\ NoBlock
    /\ prog \in TypeProgs
    /\ pc = "setup"
    /\ text \in TypeTexts
    /\ prev = <<>>
    /\ height = 0
    /\ use_alt \in BOOLEAN
    /\ screen = <<>>
    /\ cursorOn = TRUE
    /\ altOn = FALSE
    /\ frame = NoFrame
    /\ oldPrev = <<>>
    /\ writes = <<>>
    /\ mode = "typewriter"
    /\ TypewriterLocals
    /\ NoRun

NextTypewriter ==
    \/ EnterBegin
    \/ BeginAlt
    \/ BeginHide
    \/ Hide3
    \/ TypeReveal
    \/ TypeNextLine
    \/ TypeExit
    \/ FinalDraw
    \/ EndShow("end")
    \/ EndAlt("end")
    \/ Return
    \/ Show3

SpecTypewriter == InitTypewriter /\ [][NextTypewriter]_vars

\* the lines of the text as the typewriter shows them
LinesUp == [k \in 1..Len(split(text)) |-> upper(split(text)[k])]

\* len(line) + 1, summed over the first n lines
RECURSIVE FramesOfLines(_, _)
FramesOfLines(lines, n) ==
    IF n = 0 THEN 0 ELSE FramesOfLines(lines, n - 1) + Len(lines[n]) + 1

\* the step draws a frame of the loop
LoopDraw == type_draws' # type_draws

\* the lines before the current one are fully shown, the lines after it are
\* not shown at all, and no line shows less than before
RasterOrder ==
    /\ \A k \in 1..cur_r : shown'[k] = LinesUp[k]
    /\ \A k \in (cur_r + 2)..Len(shown') : shown'[k] = <<>>
    /\ \A k \in 1..Len(shown) : Len(shown'[k]) >= Len(shown[k])

\* the loop is left after len(line) + 1 frames per line, every line shown
LoopEndsShown ==
    (pc = "type" /\ pc' = "final") =>
        (type_draws = FramesOfLines(LinesUp, Len(LinesUp)) /\ shown = LinesUp)

\* C31: every frame the loop draws shows one symbol more of the current line
\* than the frame before, lines are revealed in order and never shrink, and
\* the loop ends after len(line) + 1 frames per line with every line shown
C31_EveryFrameAddsOne ==
    [][/\ LoopDraw =>
            /\ Len(shown'[cur_r + 1]) = Len(shown[cur_r + 1]) + 1
            /\ shown'[cur_r + 1] = SubSeq(LinesUp[cur_r + 1], 1, Len(shown'[cur_r + 1]))
            /\ RasterOrder
       /\ LoopEndsShown]_vars

\* C31, with the first frame of a line: the frames of a line show its first
\* 0, 1, ..., len(line) symbols in turn (the first frame of a line adds no
\* symbol, every later one adds exactly one), lines are revealed in order
\* and never shrink, and the loop ends after len(line) + 1 frames per line
\* with every line shown
C31_FramesShowPrefixesInTurn ==
    [][/\ LoopDraw =>
            /\ shown'[cur_r + 1] = SubSeq(LinesUp[cur_r + 1], 1, cur_c)
            /\ Len(shown'[cur_r + 1]) = Len(shown[cur_r + 1]) + (IF cur_c = 0 THEN 0 ELSE 1)
            /\ cur_c' = cur_c + 1
            /\ type_draws' = type_draws + 1
            /\ frame' = TypeFrame(prog, shown')
            /\ RasterOrder
       /\ LoopEndsShown]_vars

\* main3 and Main6 have left the loop after the four frames of a text of two
\* lines
C31_Witness ==
    /\ prog \in {"main3", "Main6"}
    /\ text = <<"a", "b", NL>>
    /\ pc = "done"
    /\ type_draws = 4
    /\ shown = << <<"A", "B">>, <<>> >>

-----------------------------------------------------------------------------
(* Every component on its own: the scramble animations, the typewriter and a
   Renderer driven directly, with the empty text and the empty frame among
   their inputs *)

ComponentTexts == { <<>>, <<"a">> }

InitComponents ==
    \/ InitScramble /\ text \in ComponentTexts
    \/ InitRun /\ mode = "typewriter" /\ text \in ComponentTexts
    \/ InitRenderer

NextComponents ==
    \/ NextScramble
    \/ TypeReveal
    \/ TypeNextLine
    \/ TypeExit
    \/ NextRenderer

\* a component that has a step to take goes on running
SpecComponents ==
    InitComponents /\ [][NextComponents]_vars /\ WF_vars(NextComponents)

\* C20: with the empty text every animation comes to its end, with the
\* cursor shown, the alternate screen left and, where begin() was called,
\* end() executed once; and a call draw([]) returns with prev = []
C20_EmptyTextCompletes ==
    /\ (text = <<>> /\ pc = "setup") ~>
           (pc = "done" /\ cursorOn /\ ~altOn /\ (entered => ends = 1))
    /\ [][(pc = "begun" /\ pc' = "begun" /\ frame' = <<>>) => prev' = <<>>]_vars

\* the typewriter of Main6 has run with the empty text and is over
C20_Witness ==
    /\ prog = "Main6"
    /\ mode = "typewriter"
    /\ text = <<>>
    /\ pc = "done"
    /\ ends = 1
    /\ Len(frame) = FH + 1

-----------------------------------------------------------------------------
(* The block animations of main.py and main7.py: the mode functions *)

MaxCols == 2

Min2(a, b) == IF a < b THEN a ELSE b

Max2(a, b) == IF a > b THEN a ELSE b

\* measure_block(block)[0]: max((len(line) for line in block), default=0)
BlockWidth(block) ==
    IF block = <<>> THEN 0 ELSE MaxOf({Len(block[y]) : y \in 1..Len(block)})

\* the blocks with one row per set of cell choices and one symbol per cell
RECURSIVE RowVariants(_)
RowVariants(cells) ==
    IF cells = <<>> THEN {<<>>}
    ELSE {<<c>> \o r : c \in Head(cells), r \in RowVariants(Tail(cells))}

RECURSIVE Variants(_)
Variants(choices) ==
    IF choices = <<>> THEN {<<>>}
    ELSE {<<row>> \o rest : row \in RowVariants(Head(choices)), rest \in Variants(Tail(choices))}

\* the outcomes of "random.random() < p" for a probability p = num/den:
\* random() lies in [0, 1), so the test can succeed iff p > 0 and fail iff p < 1
CanHit(num, den) == num > 0

CanMiss(num, den) == num < den

\* coords: the (y, x) of the cells with ch != " ", row by row (from 1)
coords(block) ==
    Flatten([y \in 1..Len(block) |->
        SelectSeq([x \in 1..Len(block[y]) |-> <<y, x>>], LAMBDA c : block[c[1]][c[2]] # " ")])

\* a count that rounds t * cps up
RevealCountUp(total, t, cps) == Min2(total, (t * cps + 999) \div 1000)

\* n = int(min(len(coords), t * cps)), t in thousandths and t >= 0
RevealCount(total, t, cps) == Min2(total, (t * cps) \div 1000)

\* typewriter_frame(block, t, cps)
typewriter_frame(block, t, cps) ==
    LET n == RevealCount(Len(coords(block)), t, cps)
        revealed == {coords(block)[k] : k \in 1..n}
    IN [y \in 1..Len(block) |-> [x \in 1..Len(block[y]) |->
            IF <<y, x>> \in revealed THEN block[y][x] ELSE " "]]

\* 0.999 and 0.9 as bounds on t - offset, in millionths: with
\* phase = clamp(1 - 2^(-10u), 0, 1) for u = t - offset < 1 (and 1 for u >= 1),
\* phase < 0.999 iff u < log2(1000)/10 and phase < 0.9 iff u < log2(10)/10
U999 == 996578
U900 == 332192

\* phased_progress(col_idx, total_cols, t, wave_ms) < limit, where
\* offset = (col_idx / max(1, total_cols - 1)) * (wave_ms / 1000.0); col_idx
\* counts from 0, t is in thousandths and wave_ms in milliseconds
PhaseUnder(limit, col_idx, total_cols, t, wave_ms) ==
    LET d == Max2(1, total_cols - 1)
    IN (t * d - col_idx * wave_ms) * 1000 < limit * d

\* settle_bias (0.70) and the late probability 0.15, in thousandths
settle_bias == 700
late_bias == 150

\* the symbols one cell of scramble_frame can come out as
ScrambleCell(ch, x, w, charset, t, wave_ms) ==
    IF ch = " " THEN {" "}
    ELSE IF PhaseUnder(U999, x - 1, w, t, wave_ms)
    THEN LET p == IF PhaseUnder(U900, x - 1, w, t, wave_ms) THEN settle_bias ELSE late_bias
         IN (IF CanHit(p, 1000) THEN SetOf(charset) ELSE {})
            \cup (IF CanMiss(p, 1000) THEN {ch} ELSE {})
    ELSE {ch}

\* scramble_frame(block, charset, t, wave_ms=wave_ms): every block it can return
scramble_frame(block, charset, t, wave_ms) ==
    Variants([y \in 1..Len(block) |-> [x \in 1..Len(block[y]) |->
        ScrambleCell(block[y][x], x, BlockWidth(block), charset, t, wave_ms)]])

\* CHARSETS["ascii"] and CHARSETS["blocks"], two symbols of each
ascii_charset == <<"0", "A">>
rain == <<" ", "#">>

\* a glitch whose probability ignores t
GlitchCellTimeless(ch, t, intensity) ==
    IF ch # " " /\ intensity > 0 THEN SetOf(ascii_charset) \cup {ch} ELSE {ch}

\* glitch_frame: ch != " " and random.random() < intensity*(1.0 - t); t and
\* intensity in thousandths, so the probability is in millionths
GlitchCell(ch, t, intensity) ==
    IF ch # " "
    THEN (IF CanHit(intensity * (1000 - t), 1000000) THEN SetOf(ascii_charset) ELSE {})
         \cup (IF CanMiss(intensity * (1000 - t), 1000000) THEN {ch} ELSE {})
    ELSE {ch}

\* glitch_frame(block, t, intensity): every block it can return
glitch_frame(block, t, intensity) ==
    Variants([y \in 1..Len(block) |-> [x \in 1..Len(block[y]) |->
        GlitchCell(block[y][x], t, intensity)]])

\* density of matrix_frame (0.08), in thousandths
density == 80

\* matrix_frame: a non-blank cell settles when random.random() < t, else it
\* shows a rain symbol; a blank cell shows a rain symbol when
\* random.random() < density*(1.0 - t)
MatrixCell(ch, t) ==
    IF ch # " "
    THEN (IF CanHit(t, 1000) THEN {ch} ELSE {})
         \cup (IF CanMiss(t, 1000) THEN SetOf(rain) ELSE {})
    ELSE (IF CanHit(density * (1000 - t), 1000000) THEN SetOf(rain) ELSE {})
         \cup (IF CanMiss(density * (1000 - t), 1000000) THEN {" "} ELSE {})

\* matrix_frame(block, t): every block it can return
matrix_frame(block, t) ==
    Variants([y \in 1..Len(block) |-> [x \in 1..Len(block[y]) |-> MatrixCell(block[y][x], t)]])

-----------------------------------------------------------------------------
(* The mode functions applied to any block, time and setting *)

BlockProgs == {"main", "main7"}

BlockSymbols == {" ", "A"}

BlockHeights == {0, 1, 2}

BlockRows == UNION { [1..n -> BlockSymbols] : n \in 0..MaxCols }

Blocks == UNION { [1..h -> BlockRows] : h \in BlockHeights }

\* values of t (thousandths), cfg.wave_ms, cfg.typewriter_cps and
\* cfg.glitch_intensity (thousandths) within the ranges Config.clamp allows
TSamples == {0, 50, 300, 1000}
WaveSamples == {0, 450, 2000}
CpsSamples == {10, 150}
IntensitySamples == {0, 300, 1000}

\* the fields of Config the animation reads, with the defaults of the class
\* but for outline and shadow, which the mode functions do not read; charset
\* is CHARSETS[cfg.charset_key], here two symbols of "binary"
DefaultCfg ==
    [mode |-> "scramble", wave_ms |-> 450, typewriter_cps |-> 150,
     glitch_intensity |-> 300, charset |-> <<"0", "1">>,
     outline |-> FALSE, shadow |-> FALSE]

\* MODES: main7 has no "matrix"
ModesOf(p) ==
    IF p = "main" THEN {"scramble", "typewriter", "glitch", "matrix"}
    ELSE {"scramble", "typewriter", "glitch"}

\* the settings that matter to each mode function
FrameConfigs ==
    {[DefaultCfg EXCEPT !.wave_ms = w] : w \in WaveSamples}
    \cup {[DefaultCfg EXCEPT !.mode = "typewriter", !.typewriter_cps = c] : c \in CpsSamples}
    \cup {[DefaultCfg EXCEPT !.mode = "glitch", !.glitch_intensity = g] : g \in IntensitySamples}
    \cup {[DefaultCfg EXCEPT !.mode = "matrix"]}

\* nothing but the block animation is in the state
OnlyBlock ==
    /\ prev = <<>>
    /\ height = 0
    /\ use_alt = TRUE
    /\ screen = <<>>
    /\ cursorOn = TRUE
    /\ altOn = FALSE
    /\ frame = NoFrame
    /\ oldPrev = <<>>
    /\ writes = <<>>
    /\ text = <<>>
    /\ pool_key = "alnum+punct"
    /\ PlainLook
    /\ alphabet = <<>>
    /\ NoAnimation

InitFrames ==
    /\ prog \in BlockProgs
    /\ pc = "call"
    /\ cfg \in FrameConfigs
    /\ cfg.mode \in ModesOf(prog)
    /\ base \in Blocks
    /\ t_norm \in TSamples
    /\ blk = <<>>
    /\ comp = <<>>
    /\ drawn = <<>>
    /\ OnlyBlock

\* blk = scramble_frame(base, CHARSETS[cfg.charset_key], t, wave_ms=cfg.wave_ms)
CallScramble ==
    /\ pc = "call"
    /\ cfg.mode = "scramble"
    /\ pc' = "applied"
    /\ blk' \in scramble_frame(base, cfg.charset, t_norm, cfg.wave_ms)
    /\ UNCHANGED <<prog, rvars, avars, svars, lvars, tvars, mvars, cfg, base, t_norm, comp, drawn>>

\* blk = typewriter_frame(base, t, cps=cfg.typewriter_cps)
CallTypewriter ==
    /\ pc = "call"
    /\ cfg.mode = "typewriter"
    /\ pc' = "applied"
    /\ blk' = typewriter_frame(base, t_norm, cfg.typewriter_cps)
    /\ UNCHANGED <<prog, rvars, avars, svars, lvars, tvars, mvars, cfg, base, t_norm, comp, drawn>>

\* blk = glitch_frame(base, t, intensity=cfg.glitch_intensity)
CallGlitch ==
    /\ pc = "call"
    /\ cfg.mode = "glitch"
    /\ pc' = "applied"
    /\ blk' \in glitch_frame(base, t_norm, cfg.glitch_intensity)
    /\ UNCHANGED <<prog, rvars, avars, svars, lvars, tvars, mvars, cfg, base, t_norm, comp, drawn>>

\* blk = matrix_frame(base, t)
CallMatrix ==
    /\ pc = "call"
    /\ cfg.mode = "matrix"
    /\ pc' = "applied"
    /\ blk' \in matrix_frame(base, t_norm)
    /\ UNCHANGED <<prog, rvars, avars, svars, lvars, tvars, mvars, cfg, base, t_norm, comp, drawn>>

NextFrames == CallScramble \/ CallTypewriter \/ CallGlitch \/ CallMatrix

SpecFrames == InitFrames /\ [][NextFrames]_vars

\* the cells of a block, (y, x) from 1
CellsOf(block) ==
    UNION { {<<y, x>> : x \in 1..Len(block[y])} : y \in 1..Len(block) }

NonBlank(block) == {c \in CellsOf(block) : block[c[1]][c[2]] # " "}

\* how many non-blank cells come before cell c in row-major order
Rank(block, c) ==
    Cardinality({d \in NonBlank(block) : d[1] < c[1] \/ (d[1] = c[1] /\ d[2] < c[2])})

SameShape(a, b) ==
    /\ Len(a) = Len(b)
    /\ \A y \in 1..Len(a) : Len(a[y]) = Len(b[y])

\* the non-blank cells of blk that show their target
RevealedIn(block, out) == {c \in NonBlank(block) : out[c[1]][c[2]] = block[c[1]][c[2]]}

\* C12: typewriter_frame(block, t, cps) shows the target symbol in exactly
\* the first n non-blank cells in row-major order, n the smaller of the
\* number of non-blank cells and floor(t * cps), and a blank in every other
\* cell; with cps = 10 and 4 non-blank cells that is no cell at t = 0.05 and
\* the first 3 at t = 0.3
C12_TypewriterRevealsFirstN ==
    (pc = "applied" /\ cfg.mode = "typewriter") =>
        /\ SameShape(blk, base)
        /\ \A c \in CellsOf(base) :
              blk[c[1]][c[2]] =
                 IF c \in NonBlank(base)
                    /\ (Rank(base, c) + 1) * 1000 <= t_norm * cfg.typewriter_cps
                 THEN base[c[1]][c[2]] ELSE " "
        /\ (cfg.typewriter_cps = 10 /\ Cardinality(NonBlank(base)) = 4) =>
              /\ t_norm = 50 => RevealedIn(base, blk) = {}
              /\ t_norm = 300 =>
                    RevealedIn(base, blk) = {c \in NonBlank(base) : Rank(base, c) < 3}

\* cps = 10 and t = 0.3 on a block with 4 non-blank cells: 3 of them revealed
C12_Witness ==
    /\ pc = "applied"
    /\ cfg.mode = "typewriter"
    /\ cfg.typewriter_cps = 10
    /\ t_norm = 300
    /\ Cardinality(NonBlank(base)) = 4
    /\ Cardinality(RevealedIn(base, blk)) = 3

\* C15: at t = 1 scramble_frame returns the target block unchanged, for every
\* column, every wave_ms in [0, 2000] and every outcome of the random source
C15_ScrambleResolvedAtOne ==
    (pc = "applied" /\ cfg.mode = "scramble" /\ t_norm = 1000) => blk = base

\* C16: at t = 1 glitch_frame and matrix_frame return exactly the target
\* block, for every outcome of the random source
C16_GlitchMatrixResolvedAtOne ==
    (pc = "applied" /\ cfg.mode \in {"glitch", "matrix"} /\ t_norm = 1000) => blk = base

\* matrix_frame has returned at t = 1 for a block with a blank and a
\* non-blank cell
C16_Witness ==
    /\ pc = "applied"
    /\ cfg.mode = "matrix"
    /\ t_norm = 1000
    /\ base = << <<"A", " ">>, <<" ", "A">> >>

-----------------------------------------------------------------------------
(* Outline, shadow and merge (main.py, main7.py) *)

\* OUTLINE_CHARS[1], [2], [3] and the shadow character, by name
DOT1 == "MIDDLE DOT"
DOT2 == "BULLET OPERATOR"
DOT3 == "BULLET"
SHADE == "MEDIUM SHADE"

\* line.ljust(width)
ljust(line, width) == line \o Spaces(width - Len(line))

\* pad_block(block, width)
pad_block(block, width) == [y \in 1..Len(block) |-> ljust(block[y], width)]

\* the non-blank neighbours of cell (y, x) among the 4 beside, above and
\* below it
Neighbours4(pad, y, x) ==
    {d \in {<<y - 1, x>>, <<y + 1, x>>, <<y, x - 1>>, <<y, x + 1>>} :
        /\ d[1] \in 1..Len(pad)
        /\ d[2] \in 1..Len(pad[d[1]])
        /\ pad[d[1]][d[2]] # " "}

\* the non-blank neighbours of cell (y, x) among the 8 around it
Neighbours(pad, y, x) ==
    {d \in ({y - 1, y, y + 1} \X {x - 1, x, x + 1}) \ {<<y, x>>} :
        /\ d[1] \in 1..Len(pad)
        /\ d[2] \in 1..Len(pad[d[1]])
        /\ pad[d[1]][d[2]] # " "}

\* outline_block(block): main.py grades the dot by the number of neighbours,
\* main7.py always writes the middle dot
outline_block(p, block) ==
    LET pad == pad_block(block, BlockWidth(block))
    IN [y \in 1..Len(pad) |-> [x \in 1..Len(pad[y]) |->
          IF pad[y][x] # " " THEN pad[y][x]
          ELSE LET n == Cardinality(Neighbours(pad, y, x))
               IN IF n = 0 THEN " "
                  ELSE IF p = "main7" \/ n = 1 THEN DOT1
                  ELSE IF n = 2 THEN DOT2 ELSE DOT3]]

\* shadow_block(block, 1, 1, char): a canvas one row and one column larger,
\* with char one step down and right of every non-blank cell
shadow_block(block) ==
    [sy \in 1..(Len(block) + 1) |-> [sx \in 1..(BlockWidth(block) + 1) |->
        IF /\ sy - 1 \in 1..Len(block)
           /\ sx - 1 \in 1..Len(block[sy - 1])
           /\ block[sy - 1][sx - 1] # " "
        THEN SHADE ELSE " "]]

\* a merge in which the lower block's cell wins unless it is blank
merge_blocks_under(under, overlay) ==
    LET h == Max2(Len(under), Len(overlay))
        w == Max2(BlockWidth(under), BlockWidth(overlay))
        b == pad_block(under \o [k \in 1..(h - Len(under)) |-> <<>>], w)
        o == pad_block(overlay \o [k \in 1..(h - Len(overlay)) |-> <<>>], w)
    IN [y \in 1..h |-> [x \in 1..w |-> IF b[y][x] # " " THEN b[y][x] ELSE o[y][x]]]

\* merge_blocks(base, overlay): the overlay's cell unless it is blank
merge_blocks(under, overlay) ==
    LET h == Max2(Len(under), Len(overlay))
        w == Max2(BlockWidth(under), BlockWidth(overlay))
        b == pad_block(under \o [k \in 1..(h - Len(under)) |-> <<>>], w)
        o == pad_block(overlay \o [k \in 1..(h - Len(overlay)) |-> <<>>], w)
    IN [y \in 1..h |-> [x \in 1..w |-> IF o[y][x] # " " THEN o[y][x] ELSE b[y][x]]]

\* compose_layers(block, cfg); main7 does the same steps inline
compose_layers(p, block, c) ==
    LET outlined == IF c.outline THEN merge_blocks(outline_block(p, block), block) ELSE block
    IN IF c.shadow THEN merge_blocks(shadow_block(block), outlined) ELSE outlined

-----------------------------------------------------------------------------
(* outline_block and compose_layers applied to any block *)

LayerConfigs ==
    {[DefaultCfg EXCEPT !.outline = o, !.shadow = sh] : o \in BOOLEAN, sh \in BOOLEAN}

InitLayers ==
    /\ prog \in BlockProgs
    /\ pc = "call"
    /\ cfg \in LayerConfigs
    /\ base \in Blocks
    /\ t_norm = 0
    /\ blk = <<>>
    /\ comp = <<>>
    /\ drawn = <<>>
    /\ OnlyBlock

\* blk = outline_block(base)
CallOutline ==
    /\ pc = "call"
    /\ pc' = "outlined"
    /\ blk' = outline_block(prog, base)
    /\ UNCHANGED <<prog, rvars, avars, svars, lvars, tvars, mvars, cfg, base, t_norm, comp, drawn>>

\* comp = compose_layers(base, cfg)
CallCompose ==
    /\ pc = "call"
    /\ pc' = "composed"
    /\ comp' = compose_layers(prog, base, cfg)
    /\ UNCHANGED <<prog, rvars, avars, svars, lvars, tvars, mvars, cfg, base, t_norm, blk, drawn>>

NextLayers == CallOutline \/ CallCompose

SpecLayers == InitLayers /\ [][NextLayers]_vars

\* the symbol of a block at (y, x), a blank outside the block
CellAt(block, y, x) ==
    IF y \in 1..Len(block) /\ x \in 1..Len(block[y]) THEN block[y][x] ELSE " "

\* (y, x) has a non-blank cell among the 8 cells around it
NearInk(block, y, x) ==
    \E dy \in {-1, 0, 1}, dx \in {-1, 0, 1} :
        /\ <<dy, dx>> # <<0, 0>>
        /\ CellAt(block, y + dy, x + dx) # " "

\* C33: outline_block returns the block padded to its width with a cell
\* changed if and only if the cell is blank and one of the 8 cells around
\* it, inside the padded block, is not blank
C33_OutlineChangesBlankNearInk ==
    pc = "outlined" =>
        /\ Len(blk) = Len(base)
        /\ \A y \in 1..Len(blk) :
            /\ Len(blk[y]) = BlockWidth(base)
            /\ \A x \in 1..Len(blk[y]) :
                 (blk[y][x] # CellAt(base, y, x))
                     <=> (CellAt(base, y, x) = " " /\ NearInk(base, y, x))

\* the outline of a block whose only symbol touches the blank cell below and
\* right of it by a corner
C33_Witness ==
    /\ pc = "outlined"
    /\ base = << <<"A", " ">>, <<" ", " ">> >>
    /\ blk[2][2] # " "
    /\ blk[1][1] = "A"

\* C34: with the shadow or the outline on, compose_layers shows at every
\* position the block's symbol where it is not blank, else the outline's
\* decoration if there is one, else the shadow fill if the block's cell one
\* up and one left is not blank, else a blank; and all lines have the width
\* of the widest layer
C34_LayersByPriority ==
    (pc = "composed" /\ (cfg.outline \/ cfg.shadow)) =>
        /\ Len(comp) = Len(base) + (IF cfg.shadow THEN 1 ELSE 0)
        /\ \A y \in 1..Len(comp) :
            /\ Len(comp[y]) = BlockWidth(base) + (IF cfg.shadow THEN 1 ELSE 0)
            /\ \A x \in 1..Len(comp[y]) :
                 comp[y][x] =
                    IF CellAt(base, y, x) # " " THEN CellAt(base, y, x)
                    ELSE IF cfg.outline /\ CellAt(outline_block(prog, base), y, x) # " "
                    THEN CellAt(outline_block(prog, base), y, x)
                    ELSE IF cfg.shadow /\ CellAt(base, y - 1, x - 1) # " " THEN SHADE
                    ELSE " "

\* a block of one symbol and one blank composed with outline and shadow
C34_Witness ==
    /\ pc = "composed"
    /\ cfg.outline
    /\ cfg.shadow
    /\ base = << <<"A", " ">> >>
    /\ comp = << <<"A", DOT1, " ">>, <<" ", SHADE, " ">> >>

-----------------------------------------------------------------------------
(* diff_print of main.py: prev is the frame on the screen (drawn), curr the
   new frame (comp); the runs it prints are kept in writes *)

\* a new row left at its own length
PadCurrNone(b, la) == b

\* elif la > lb: b = b.ljust(la)
PadCurr(b, la) == IF la > Len(b) THEN ljust(b, la) ELSE b

\* if lb > la: a = a.ljust(lb)
PadPrev(a, lb) == IF lb > Len(a) THEN ljust(a, lb) ELSE a

\* while j < len(b) and a[j] != b[j]: j += 1 (columns from 1)
RECURSIVE RunEnd(_, _, _)
RunEnd(a, b, j) ==
    IF j <= Len(b) /\ a[j] # b[j] THEN RunEnd(a, b, j + 1) ELSE j

\* the while loop over the columns of row y from column i on: one
\* console.print of "\x1b[y;iH" + b[i:j] for every run of differing cells
RECURSIVE RunsFrom(_, _, _, _)
RunsFrom(y, a, b, i) ==
    IF i > Len(b) THEN <<>>
    ELSE IF a[i] # b[i]
    THEN <<[row |-> y, col |-> i, text |-> SubSeq(b, i, RunEnd(a, b, i) - 1)]>>
         \o RunsFrom(y, a, b, RunEnd(a, b, i))
    ELSE RunsFrom(y, a, b, i + 1)

\* the body of "for y in range(rows)" for row y
RowRuns(prv, curr, y) ==
    LET a == IF y <= Len(prv) THEN prv[y] ELSE <<>>
        b == IF y <= Len(curr) THEN curr[y] ELSE <<>>
    IN IF a = b THEN <<>>
       ELSE RunsFrom(y, PadPrev(a, Len(b)), PadCurr(b, Len(a)), 1)

\* diff_print(prev, curr)
diff_print(prv, curr) ==
    Flatten([y \in 1..Max2(Len(prv), Len(curr)) |-> RowRuns(prv, curr, y)])

\* the terminal after a print of text at goto(row, col)
ApplyRun(scr, w) ==
    IF w.row \in DOMAIN scr
    THEN [scr EXCEPT ![w.row] =
            [c \in 1..Len(@) |->
                IF c >= w.col /\ c < w.col + Len(w.text) THEN w.text[c - w.col + 1] ELSE @[c]]]
    ELSE scr

RECURSIVE ApplyRuns(_, _)
ApplyRuns(scr, ws) ==
    IF ws = <<>> THEN scr ELSE ApplyRuns(ApplyRun(scr, Head(ws)), Tail(ws))

\* a screen of the size of the largest block, showing a block
Showing(block) == [y \in 1..MaxOf(BlockHeights) |-> [x \in 1..MaxCols |-> CellAt(block, y, x)]]

InitDiff ==
    /\ prog = "main"
    /\ pc = "call"
    /\ cfg = DefaultCfg
    /\ base = <<>>
    /\ t_norm = 0
    /\ blk = <<>>
    /\ drawn \in Blocks
    /\ comp \in Blocks
    /\ prev = <<>>
    /\ height = 0
    /\ use_alt = TRUE
    /\ screen = Showing(drawn)
    /\ cursorOn = TRUE
    /\ altOn = FALSE
    /\ frame = NoFrame
    /\ oldPrev = <<>>
    /\ writes = <<>>
    /\ text = <<>>
    /\ pool_key = "alnum+punct"
    /\ PlainLook
    /\ alphabet = <<>>
    /\ NoAnimation

\* diff_print(prev, curr) on a terminal that shows prev
DiffPrint ==
    /\ pc = "call"
    /\ pc' = "printed"
    /\ \E runs \in {diff_print(drawn, comp)} :
        /\ writes' = runs
        /\ screen' = ApplyRuns(screen, runs)
    /\ UNCHANGED <<prog, prev, height, use_alt, cursorOn, altOn, frame, oldPrev,
                   avars, svars, lvars, tvars, mvars, bvars>>

NextDiff == DiffPrint

SpecDiff == InitDiff /\ [][NextDiff]_vars

\* C35: after diff_print(prev, curr) a screen that showed prev shows curr,
\* the rows and columns only prev had being blank; every printed run covers
\* only cells in which prev and curr differ; and nothing is printed when
\* prev equals curr
C35_DiffPrintShowsCurr ==
    pc = "printed" =>
        /\ screen = Showing(comp)
        /\ \A k \in 1..Len(writes) : \A n \in 1..Len(writes[k].text) :
              /\ writes[k].text[n] = CellAt(comp, writes[k].row, writes[k].col + n - 1)
              /\ writes[k].text[n] # CellAt(drawn, writes[k].row, writes[k].col + n - 1)
        /\ (drawn = comp => writes = <<>>)

\* a frame shrinks by a row and by a column: the cells left over are blanked
C35_Witness ==
    /\ pc = "printed"
    /\ drawn = << <<"A", "A">>, <<" ", "A">> >>
    /\ comp = << <<"A">> >>
    /\ writes = << [row |-> 1, col |-> 2, text |-> <<" ">>],
                   [row |-> 2, col |-> 2, text |-> <<" ">>] >>

-----------------------------------------------------------------------------
(* run_animation of main.py (live, record=False) and of main7.py
   (export_only=False) *)

RunBlocks == { <<>>, << <<"A", "A">> >>, << <<"A", " ">>, <<" ", "A">> >> }

RunConfigs ==
    {[DefaultCfg EXCEPT !.mode = m, !.outline = o, !.shadow = sh] :
        m \in {"scramble", "typewriter", "glitch", "matrix"}, o \in BOOLEAN, sh \in BOOLEAN}

\* the frames the mode function of cfg.mode can return at time t
ModeFrames(c, block, t) ==
    CASE c.mode = "scramble" -> scramble_frame(block, c.charset, t, c.wave_ms)
      [] c.mode = "typewriter" -> {typewriter_frame(block, t, c.typewriter_cps)}
      [] c.mode = "glitch" -> glitch_frame(block, t, c.glitch_intensity)
      [] OTHER -> matrix_frame(block, t)

\* a final reveal that shows the last tick's frame again
FinalFrameLastTick(p, block, c, last) == last

\* the frame of the final reveal: main.py composes it from base; main7.py
\* keeps frames[-1] unless neither outline nor shadow is on
FinalFrame(p, block, c, last) ==
    IF p = "main" THEN compose_layers(p, block, c)
    ELSE IF ~(c.outline \/ c.shadow) THEN block ELSE last

InitBlockRun ==
    /\ prog \in BlockProgs
    /\ pc = "tick"
    /\ cfg \in RunConfigs
    /\ cfg.mode \in ModesOf(prog)
    /\ base \in RunBlocks
    /\ t_norm = 0
    /\ blk = <<>>
    /\ comp = <<>>
    /\ drawn = <<>>
    /\ OnlyBlock

\* one pass of "while True": t is read, the mode function and the layers
\* give comp, which is appended to frames; main.py prints it and then breaks
\* if t >= 1.0; main7.py breaks first and prints only when there is time
\* left before the next frame is due
BlockTick ==
    /\ pc = "tick"
    /\ \E tn \in {x \in TSamples : x >= t_norm} :
        /\ t_norm' = tn
        /\ blk' \in ModeFrames(cfg, base, tn)
        /\ comp' = compose_layers(prog, blk', cfg)
        /\ pc' = IF tn >= 1000 THEN "final" ELSE "tick"
        /\ IF prog = "main" THEN drawn' = comp'
           ELSE IF tn >= 1000 THEN drawn' = drawn
           ELSE drawn' \in {drawn, comp'}
    /\ UNCHANGED <<prog, rvars, avars, svars, lvars, tvars, mvars, cfg, base>>

\* the final reveal after the loop
BlockFinal ==
    /\ pc = "final"
    /\ pc' = "done"
    /\ drawn' = FinalFrame(prog, base, cfg, comp)
    /\ comp' = IF prog = "main7" THEN FinalFrame(prog, base, cfg, comp) ELSE comp
    /\ UNCHANGED <<prog, rvars, avars, svars, lvars, tvars, mvars, cfg, base, t_norm, blk>>

NextBlockRun == BlockTick \/ BlockFinal

SpecBlockRun == InitBlockRun /\ [][NextBlockRun]_vars

\* C13: in main7 the final frame, drawn and kept as frames[-1], is the
\* target block with its decorations, in every mode and for every outline
\* and shadow setting
C13_Main7FinalFrameResolved ==
    (prog = "main7" /\ pc = "done") =>
        /\ drawn = compose_layers(prog, base, cfg)
        /\ comp = compose_layers(prog, base, cfg)

\* C14: in main.py a tick ends the loop exactly when its t >= 1.0, and after
\* the final reveal the terminal shows compose_layers(base), in every mode
C14_LoopEndsAtOneAndShowsTarget ==
    [][(prog = "main") =>
          /\ (pc = "tick" /\ pc' = "tick") => t_norm' < 1000
          /\ (pc = "tick" /\ pc' = "final") => t_norm' >= 1000
          /\ pc' = "done" => drawn' = compose_layers("main", base, cfg)]_vars

\* a scramble run of main.py with outline is over, and its last tick drew a
\* frame that differs from the target
C14_Witness ==
    /\ prog = "main"
    /\ pc = "done"
    /\ cfg.mode = "scramble"
    /\ cfg.outline
    /\ blk # base
    /\ drawn # comp

\* ---------------------------------------------------------------------------
\* Left-to-right locking of animate_scramble_ascii (main3, Main4..Main6)
\* ---------------------------------------------------------------------------

\* the locked cells of a line are its first cells
LockedPrefix(lk) == \A j \in 1..Len(lk) : lk[j] => \A i \in 1..(j - 1) : lk[i]

\* the cells of line k whose display, lock or try counter differs after the step
TouchedCells(k) ==
    {j \in 1..Len(states[k].tgt) :
        \/ states'[k].disp[j] # states[k].disp[j]
        \/ states'[k].locked[j] # states[k].locked[j]
        \/ prog \in {"Main5", "Main6"} /\ tries'[k][j] # tries[k][j]}

\* one pass of the for loop: only the line under li, and of it only locked.index(False)
OneCellOfTheLine ==
    (pc = "update" /\ li < Len(states) /\ prog # "main2") =>
        /\ li' = li + 1
        /\ \A k \in 1..Len(states) :
            IF k = li + 1
            THEN /\ Cardinality(TouchedCells(k)) <= 1
                 /\ \A j \in TouchedCells(k) :
                        ~states[k].locked[j] /\ \A i \in 1..(j - 1) : states[k].locked[i]
            ELSE TouchedCells(k) = {}

\* C36: in main3 and Main4..Main6 the locked cells of every line form a prefix
\* of the line in every reachable state, and a pass over a line within a tick
\* touches at most one cell of that line, its first unlocked one, and no other
\* line; a line is passed once per tick (li only grows until the frame is drawn).
C36_LeftToRightLocking ==
    /\ [](prog # "main2" => \A k \in 1..Len(states) : LockedPrefix(states[k].locked))
    /\ [][OneCellOfTheLine]_vars

\* main3, "ab": the first cell is locked, the second is still scrambling
C36_Witness ==
    /\ prog = "main3"
    /\ text = <<"a", "b">>
    /\ pc = "update"
    /\ Len(states) = 1
    /\ states[1].locked = <<TRUE, FALSE>>
    /\ states[1].disp[1] = "A"

\* ---------------------------------------------------------------------------
\* end() per run of Main4..Main6
\* ---------------------------------------------------------------------------

\* C37: in a run started from main() of Main4..Main6, interrupted or not,
\* end() is never executed a second time and never without begin() having
\* been entered before, and a run that is over has executed it once.
C37_EndOnceAfterBegin ==
    prog \in RendererUsers =>
        /\ ends <= 1
        /\ ends >= 1 => entered
        /\ RunOver => ends = 1

\* ---------------------------------------------------------------------------
\* main2 animate_lockstep: the tick whose cursor cell is held back
\* ---------------------------------------------------------------------------

\* C38: an iteration of main2's loop whose cursor cell belongs to a line
\* that is not yet released at the time the iteration reads attempts nothing:
\* display, locked, indices and i_ptr are the same after it, whatever the
\* state of the lines already released.
C38_HeldTickAttemptsNothing ==
    [][(/\ prog = "main2"
        /\ pc = "loop"
        /\ ~AllLocked(locked)
        /\ indices # <<>>
        /\ now' < LineOf(chars, CursorCell) * stagger) =>
            /\ display' = display
            /\ locked' = locked
            /\ indices' = indices
            /\ i_ptr' = i_ptr]_vars

\* "ab\na" with stagger 1 at time 0: both cells of line 0 were missed, the
\* cursor stands on the cell of line 1 and the held frame has been written
C38_Witness ==
    /\ prog = "main2"
    /\ text = <<"a", "b", NL, "a">>
    /\ pc = "loop"
    /\ stagger = 1
    /\ now = 0
    /\ i_ptr = 2
    /\ indices = <<0, 1, 3>>
    /\ ~locked[1] /\ ~locked[2]
    /\ frame = <<StaggerOut(prog, display, locked)>>

\* ---------------------------------------------------------------------------
\* The shape of the frames: the mode functions of main.py and main7.py on any
\* block, and the frames drawn by a run of Main4..Main6
\* ---------------------------------------------------------------------------

InitShape == InitFrames \/ InitRun

NextShape == NextFrames \/ NextRun

SpecShape == InitShape /\ [][NextShape]_vars

\* C39: scramble_frame, typewriter_frame, glitch_frame and matrix_frame
\* return a block with as many lines as the block given and lines of the same
\* lengths, at every t; and every frame given to draw() in a run of
\* Main4..Main6 has FH + 1 = 7 rows for each line of the text.
C39_FrameShapeStable ==
    /\ (prog \in BlockProgs /\ pc = "applied") => SameShape(blk, base)
    /\ (prog \in RendererUsers /\ frame # NoFrame) =>
           Len(frame) = (FH + 1) * Len(split(text))

\* glitch_frame at t = 0.3 has replaced a symbol of a ragged two-line block
C39_Witness ==
    /\ prog = "main"
    /\ pc = "applied"
    /\ cfg.mode = "glitch"
    /\ t_norm = 300
    /\ Len(base) = 2
    /\ Len(base[1]) # Len(base[2])
    /\ blk # base

\* a run of Main6 has drawn fourteen rows for a text of two lines
C39_RunWitness ==
    /\ prog = "Main6"
    /\ mode = "typewriter"
    /\ text = <<"a", NL, "b">>
    /\ type_draws = 1
    /\ Len(frame) = 14

====
